---- MODULE Spec2Model ----
(***************************************************************************)
(* Model of the lsm-tree core: the memtable (src/src/memtable/mod.rs),     *)
(* the blob tree with its flush, garbage collection and scans              *)
(* (src/src/blob_tree/mod.rs), the FIFO compaction strategy                *)
(* (src/src/compaction/fifo.rs), the segment file trailer                  *)
(* (src/src/segment/trailer.rs) and the merging iterator as the merge      *)
(* benchmark drives it (src/benches/merge.rs).                             *)
(***************************************************************************)
EXTENDS Integers, Sequences, FiniteSets, TLC

VARIABLES
    items,             \* MemTable.items: the skip map, as its sorted entry list
    approximate_size,  \* MemTable.approximate_size (AtomicU32)
    pc,                \* per writer thread: position inside MemTable::insert
    pending,           \* per writer thread: the item being inserted
    size_before,       \* per writer thread: value returned by fetch_add
    returned,          \* history: the (item_size, new_total) pairs returned by insert
    rd_pc,             \* reader position inside MemTable::get
    rd_key,            \* reader: the key argument
    rd_seqno,          \* reader: the seqno argument (Option)
    rd_cursor,         \* reader: the skip-map entry the range iterator stands on
    rd_result,         \* reader: value returned by get (Option)
    rd_start,          \* history: the entry list when the read began
    rd_dirty,          \* history: an insert with seqno <= snapshot ran since the read began
    levels,            \* LevelManifest: levels[1] is L0 (newest first), levels[2] is L1, ...
    limit,             \* fifo::Strategy.limit
    ttl_seconds,       \* fifo::Strategy.ttl_seconds (Option)
    now,               \* unix_timestamp() in microseconds
    next_id,           \* next segment id handed out
    choice,            \* result of the last Strategy::choose (Option)
    choice_levels,     \* history: the manifest the last choose ran on
    choice_now,        \* history: the clock the last choose read
    trl_src,           \* the SegmentFileTrailer handed to serialize (Option)
    trl_file,          \* the last TRAILER_SIZE bytes of the segment file
    trl_read,          \* result of SegmentFileTrailer::from_file (Option)
    sealed,            \* sealed memtable queue: sequence of [id, items], oldest first
    segments,          \* registered index segments, newest first: [id, entries]
    vlog,              \* registered blob segments of the value log: [id, blobs]
    stale,             \* ids of the blob segments the value log has marked stale
    next_segment_id,   \* the index tree's segment id counter
    next_blob_id,      \* the value log's segment id counter
    fl_pc,             \* flusher: position inside flush_active_memtable
    fl_mem,            \* flusher: the id of the memtable rotate_memtable yanked (Option)
    fl_out,            \* flusher: the entries handed to the segment writer
    fl_blob,           \* flusher: the blob writer [id, offset, blobs] (Option)
    fl_result,         \* result of the last flush_active_memtable (Option)
    mt_writer,         \* holder of the active memtable's write lock (Option)
    gc_pc,             \* garbage collector: position inside the gc_* function
    gc_fn,             \* garbage collector: the function running (Option)
    gc_ids,            \* garbage collector: the blob segment ids selected
    sc_result,         \* the items the range scan yielded, a panic ending them (Option)
    sc_in,             \* history: what the index iterator yielded to the scan (Option)
    st_result,         \* result of gc_scan_stats (Option)
    mg_tables,         \* benchmark: the memtables, as their sorted entry lists
    mg_pc,             \* benchmark: building the memtables, merging, or done
    mg_cfg,            \* Merger options: dedup and the snapshot seqno (Option)
    mg_fail,           \* the source whose iterator ends in an error (Option)
    mg_st,             \* Merger: the sources' remainders, the heap, the last key
    mg_out             \* the results the merger has yielded

memVars  == <<items, approximate_size, pc, pending, size_before, returned>>
rdVars   == <<rd_pc, rd_key, rd_seqno, rd_cursor, rd_result, rd_start, rd_dirty>>
fifoVars == <<levels, limit, ttl_seconds, now, next_id, choice, choice_levels,
              choice_now>>
trlVars  == <<trl_src, trl_file, trl_read>>
flVars   == <<fl_pc, fl_mem, fl_out, fl_blob, fl_result>>
gcVars   == <<gc_pc, gc_fn, gc_ids>>
scVars   == <<sc_result, sc_in, st_result>>
blobVars == <<sealed, segments, vlog, stale, next_segment_id, next_blob_id, flVars,
              mt_writer, gcVars, scVars>>
mgVars   == <<mg_tables, mg_pc, mg_cfg, mg_fail, mg_st, mg_out>>
extVars  == <<trlVars, blobVars, mgVars>>
vars     == <<memVars, rdVars, fifoVars, extVars>>

----------------------------------------------------------------------------
(* Bounds *)

\* seqnos range over 0..MaxSeqno
MaxSeqno == 2
\* inserts started per behaviour of the single writer
MaxSeqInserts == 3
\* inserts started per behaviour of the concurrent writers
MaxInserts == 3
\* inserts started per behaviour next to a reader
MaxReadInserts == 2
\* segments added to the manifest per behaviour
MaxSegments == 3
\* clock advances per behaviour
MaxTicks == 4
MaxKeyLen == 60
MaxBlobInserts == 2
MaxBlobSegments == 2
MaxGcInserts == 1
\* inserts started per behaviour of the writer next to faulty scans
MaxScanInserts == 1
\* entries written per behaviour through insert and raw_insert_with_lock
MaxInlineInserts == 2
\* entries inserted into the benchmark's memtables per behaviour
MaxMergeInserts == 3

----------------------------------------------------------------------------
(* Option<T> *)

None    == <<>>
Some(x) == <<x>>

(* The seqno domain; SeqNoMax stands for SeqNo::MAX, the top of the domain *)
SeqNoMax == MaxSeqno
SeqNos   == 0..SeqNoMax

(* User keys are byte strings: "a" and its extension "aa" *)
UserKeys == {<<1>>, <<1, 1>>}
(* User values handed to the tree *)
UserValues == {<<7>>}

Threads == {1, 2}

----------------------------------------------------------------------------
(* Byte-string and internal-key ordering *)

\* Ord for byte slices: lexicographic, a proper prefix sorts first
RECURSIVE BytesLess(_, _)
BytesLess(a, b) ==
    IF b = <<>> THEN FALSE
    ELSE IF a = <<>> THEN TRUE
    ELSE IF a[1] # b[1] THEN a[1] < b[1]
    ELSE BytesLess(Tail(a), Tail(b))

\* Ord for ParsedInternalKey: user_key ascending, then seqno descending
InternalKeyLess(x, y) ==
    \/ BytesLess(x.user_key, y.user_key)
    \/ x.user_key = y.user_key /\ x.seqno > y.seqno

\* Value::new(key, value, seqno, value_type)
NewValue(key, value, seqno, value_type) ==
    [user_key |-> key, seqno |-> seqno, value_type |-> value_type, value |-> value]

\* Value::size(): grows with the key and value lengths
ItemSize(item) == Len(item.user_key) + Len(item.value)

----------------------------------------------------------------------------
(* MemTable *)

\* SkipMap::insert: an entry with an equal key is removed, the new one is
\* linked at the position the key order gives it
SkipInsert(m, e) ==
    SelectSeq(m, LAMBDA x : InternalKeyLess(x, e))
        \o <<e>> \o
    SelectSeq(m, LAMBDA x : InternalKeyLess(e, x))

\* a map keyed by the user key alone: a new version replaces the old one
MapInsertByUserKey(m, item) ==
    SelectSeq(m, LAMBDA x : BytesLess(x.user_key, item.user_key))
        \o <<item>> \o
    SelectSeq(m, LAMBDA x : BytesLess(item.user_key, x.user_key))

\* insert's map update: the item goes in under ParsedInternalKey(key, seqno, value_type)
MapInsert(m, item) == SkipInsert(m, item)

\* SkipMap::range(lb..): the entries at or after the lower bound
RangeFrom(m, lb) == SelectSeq(m, LAMBDA x : ~InternalKeyLess(x, lb))

\* the entries strictly after an entry (Entry::next of the range iterator)
RangeAfter(m, cur) == SelectSeq(m, LAMBDA x : InternalKeyLess(cur, x))

\* slice::starts_with
StartsWith(user_key, prefix) ==
    Len(prefix) <= Len(user_key) /\ SubSeq(user_key, 1, Len(prefix)) = prefix

\* the range from the prefix's lower bound, unfiltered
PrefixUnfiltered(m, prefix) ==
    RangeFrom(m, NewValue(prefix, <<>>, SeqNoMax, "Tombstone"))

\* MemTable::prefix: the range from (prefix, SeqNo::MAX, Tombstone), without
\* an upper bound, filtered by starts_with
Prefix(m, prefix) ==
    SelectSeq(RangeFrom(m, NewValue(prefix, <<>>, SeqNoMax, "Tombstone")),
              LAMBDA entry : StartsWith(entry.user_key, prefix))

\* a range that starts at the oldest version of the key
GetLowerBoundOldest(prefix) == [user_key |-> prefix, seqno |-> 0,
                                value_type |-> "Tombstone", value |-> <<>>]

\* the lower bound of get's range: (prefix, SeqNo::MAX, Tombstone)
GetLowerBound(prefix) == NewValue(prefix, <<>>, SeqNoMax, "Tombstone")

\* get without its early return for a greater user key
PastKeyNever(user_key, prefix) == FALSE

\* "We are past the searched key": &*key.user_key > prefix
PastKey(user_key, prefix) == BytesLess(prefix, user_key)

\* a seqno check that includes the snapshot seqno itself
SeqnoVisibleInclusive(entry_seqno, seqno) == entry_seqno <= seqno

\* a seqno check with the comparison turned around
SeqnoVisibleNewer(entry_seqno, seqno) == entry_seqno > seqno

\* the seqno check of a snapshot read: key.seqno < seqno
SeqnoVisible(entry_seqno, seqno) == entry_seqno < seqno

\* a loop body that never looks at the snapshot seqno
GetStepIgnoreSeqno(e, prefix, seqno) ==
    IF PastKey(e.user_key, prefix) THEN "none" ELSE "some"

\* a loop body that gives up at the first entry the snapshot cannot see
GetStepNoSkip(e, prefix, seqno) ==
    IF PastKey(e.user_key, prefix) THEN "none"
    ELSE IF seqno # None
         THEN IF SeqnoVisible(e.seqno, seqno[1]) THEN "some" ELSE "none"
         ELSE "some"

\* the body of get's loop for one entry: "none", "some" or "continue"
GetStep(e, prefix, seqno) ==
    IF PastKey(e.user_key, prefix) THEN "none"
    ELSE IF seqno # None
         THEN IF SeqnoVisible(e.seqno, seqno[1]) THEN "some" ELSE "continue"
         ELSE "some"

\* the loop of MemTable::get over the range
RECURSIVE GetScan(_, _, _)
GetScan(r, prefix, seqno) ==
    IF r = <<>> THEN None
    ELSE LET step == GetStep(Head(r), prefix, seqno)
         IN  IF step = "none" THEN None
             ELSE IF step = "some" THEN Some(Head(r))
             ELSE GetScan(Tail(r), prefix, seqno)

\* MemTable::get(key, seqno) run against one state of the map
Get(m, key, seqno) == GetScan(RangeFrom(m, GetLowerBound(key)), key, seqno)

\* MemTable::size()
Size == approximate_size

\* MemTable::len()
MemLen == Len(items)

----------------------------------------------------------------------------
(* Blob tree wrappers over the index tree's active memtable *)

\* MaybeInlineValue::Inline(bytes).serialize: tag byte, length, bytes
SerializeInline(bytes) == <<0, Len(bytes)>> \o bytes

\* MaybeInlineValue::deserialize of an inline value: the bytes after tag and length
DeserializeInline(raw) == [kind |-> "Inline", bytes |-> SubSeq(raw, 3, 2 + raw[2])]

\* the item BlobTree::insert hands to the memtable
InsertItem(key, value, seqno) == NewValue(key, SerializeInline(value), seqno, "Value")

\* the item BlobTree::remove hands to the memtable: a tombstone with an empty value
RemoveItem(key, seqno) == NewValue(key, <<>>, seqno, "Tombstone")

\* the index tree's get_internal_with_seqno over the active memtable: a
\* missing entry or a tombstone reads as none, a value is decoded
GetInternalWithSeqno(m, key, seqno) ==
    LET found == Get(m, key, Some(seqno))
    IN  IF found = None THEN None
        ELSE IF found[1].value_type = "Tombstone" THEN None
        ELSE Some(DeserializeInline(found[1].value))

\* BlobTree::get_with_seqno: none stays none, Inline(bytes) gives the bytes
\* (a memtable holds inline values only)
GetWithSeqno(m, key, seqno) ==
    LET value == GetInternalWithSeqno(m, key, seqno)
    IN  IF value = None THEN None ELSE Some(value[1].bytes)

----------------------------------------------------------------------------
(* MemTable::insert, one step per atomic operation *)

InsertsStarted == Len(returned) + Cardinality({t \in Threads : pc[t] = "added"})

\* a counter that is overwritten instead of added to
FetchAddStore(counter, item_size) == item_size

\* the counter after fetch_add(item_size)
FetchAdd(counter, item_size) == counter + item_size

\* the second component of insert's result: size_before + item_size
NewTotal(before, item_size) == before + item_size

\* insert that puts the item into the skip map before it touches the counter
InsertMapFirst(t, item, cap) ==
    /\ pc[t] = "idle"
    /\ InsertsStarted < cap
    /\ pending' = [pending EXCEPT ![t] = Some(item)]
    /\ size_before' = [size_before EXCEPT ![t] = approximate_size]
    /\ items' = MapInsert(items, item)
    /\ pc' = [pc EXCEPT ![t] = "added"]
    /\ UNCHANGED <<approximate_size, returned, rdVars, fifoVars, extVars>>

\* insert, first half: item_size is computed and added to the counter
InsertFetchAdd(t, item, cap) ==
    /\ pc[t] = "idle"
    /\ InsertsStarted < cap
    /\ pending' = [pending EXCEPT ![t] = Some(item)]
    /\ size_before' = [size_before EXCEPT ![t] = approximate_size]
    /\ approximate_size' = FetchAdd(approximate_size, ItemSize(item))
    /\ pc' = [pc EXCEPT ![t] = "added"]
    /\ UNCHANGED <<items, returned, rdVars, fifoVars, extVars>>

\* BlobTree::insert up to the counter update
TreeInsert(t, cap) ==
    \E k \in UserKeys, v \in UserValues, s \in SeqNos :
        InsertFetchAdd(t, InsertItem(k, v, s), cap)

\* BlobTree::remove up to the counter update
TreeRemove(t, cap) ==
    \E k \in UserKeys, s \in SeqNos :
        InsertFetchAdd(t, RemoveItem(k, s), cap)

\* insert, second half: the item is linked into the skip map and
\* (item_size, size_before + item_size) is returned
InsertLink(t) ==
    /\ pc[t] = "added"
    /\ LET item == pending[t][1]
       IN  /\ items' = MapInsert(items, item)
           /\ returned' = Append(returned,
                  <<ItemSize(item), NewTotal(size_before[t], ItemSize(item))>>)
           /\ rd_dirty' = IF rd_pc = "idle" THEN rd_dirty
                          ELSE rd_dirty \/ rd_seqno = None \/ item.seqno <= rd_seqno[1]
    /\ pc' = [pc EXCEPT ![t] = "idle"]
    /\ pending' = [pending EXCEPT ![t] = None]
    /\ size_before' = [size_before EXCEPT ![t] = 0]
    /\ UNCHANGED <<approximate_size, rd_pc, rd_key, rd_seqno, rd_cursor, rd_result,
                   rd_start, fifoVars, extVars>>

----------------------------------------------------------------------------
(* MemTable::get, one step per entry the range iterator yields *)

ReadBegin ==
    /\ rd_pc = "idle"
    /\ \E k \in UserKeys, sq \in {None} \cup {Some(s) : s \in SeqNos} :
          /\ rd_key' = k
          /\ rd_seqno' = sq
    /\ rd_pc' = "scan"
    /\ rd_cursor' = None
    /\ rd_result' = None
    /\ rd_start' = items
    /\ rd_dirty' = FALSE
    /\ UNCHANGED <<memVars, fifoVars, extVars>>

\* one iteration of "for entry in self.items.range(range)"
ReadNext ==
    /\ rd_pc = "scan"
    /\ LET r == IF rd_cursor = None
                THEN RangeFrom(items, GetLowerBound(rd_key))
                ELSE RangeAfter(items, rd_cursor[1])
       IN  IF r = <<>>
           THEN /\ rd_pc' = "done"
                /\ rd_result' = None
                /\ UNCHANGED rd_cursor
           ELSE LET step == GetStep(Head(r), rd_key, rd_seqno)
                IN  /\ rd_pc' = IF step = "continue" THEN "scan" ELSE "done"
                    /\ rd_result' = IF step = "some" THEN Some(Head(r)) ELSE None
                    /\ rd_cursor' = Some(Head(r))
    /\ UNCHANGED <<rd_key, rd_seqno, rd_start, rd_dirty, memVars, fifoVars, extVars>>

\* the caller drops the result
ReadReturn ==
    /\ rd_pc = "done"
    /\ rd_pc' = "idle"
    /\ rd_key' = <<>>
    /\ rd_seqno' = None
    /\ rd_cursor' = None
    /\ rd_result' = None
    /\ rd_start' = <<>>
    /\ rd_dirty' = FALSE
    /\ UNCHANGED <<memVars, fifoVars, extVars>>

----------------------------------------------------------------------------
(* Level manifest *)

\* the number of levels of the manifest (LevelManifest::create_new(4, ..))
NumLevels == 4

\* the byte limits a strategy is configured with
Limits == {1, 3}

\* the TTLs a strategy is configured with: disabled (None, 0) or one second
Ttls == {None, Some(0), Some(1)}

\* the file sizes of flushed segments
FileSizes == {1, 2}

\* the clock advances in steps of half a second
TickMicros == (1000 * 1000) \div 2

EmptyLevels == [l \in 1..NumLevels |-> <<>>]

RECURSIVE SumFileSizes(_)
SumFileSizes(segs) ==
    IF segs = <<>> THEN 0 ELSE Head(segs).file_size + SumFileSizes(Tail(segs))

RECURSIVE SumLevels(_, _)
SumLevels(lv, l) ==
    IF l > NumLevels THEN 0 ELSE SumFileSizes(lv[l]) + SumLevels(lv, l + 1)

\* LevelManifest::size(): the bytes of the segments of all levels
ManifestSize(lv) == SumLevels(lv, 1)

\* LevelManifest::add: the segment becomes the newest of L0
ManifestAdd(lv, seg) == [lv EXCEPT ![1] = <<seg>> \o lv[1]]

\* apply_move of the oldest L0 segment into L1
ManifestMoveOldest(lv) ==
    [lv EXCEPT ![1] = SubSeq(lv[1], 1, Len(lv[1]) - 1),
               ![2] = <<lv[1][Len(lv[1])]>> \o lv[2]]

SeqToSet(q) == {q[i] : i \in 1..Len(q)}

\* executing DeleteSegments(ids): every listed id leaves its level
ManifestRemove(lv, ids) ==
    [l \in 1..NumLevels |-> SelectSeq(lv[l], LAMBDA g : g.id \notin SeqToSet(ids))]

----------------------------------------------------------------------------
(* Compaction strategies *)

DoNothing == [kind |-> "DoNothing", ids |-> <<>>]
DeleteSegments(ids) == [kind |-> "DeleteSegments", ids |-> ids]
Merge(ids) == [kind |-> "Merge", ids |-> ids]

RECURSIVE Ids(_)
Ids(segs) == IF segs = <<>> THEN <<>> ELSE <<Head(segs).id>> \o Ids(Tail(segs))

RECURSIVE Reverse(_)
Reverse(q) == IF q = <<>> THEN <<>> ELSE Reverse(Tail(q)) \o <<Head(q)>>

\* the L0 segment count the maintenance strategy tolerates
L0SegmentCap == 4

\* maintenance::Strategy::choose: merges L0 when it holds too many segments
MaintenanceChoose(lv) ==
    IF Len(lv[1]) > L0SegmentCap THEN Merge(Ids(lv[1])) ELSE DoNothing

\* lifetime_us / 1000 / 1000
LifetimeSec(now_us, created_at) == ((now_us - created_at) \div 1000) \div 1000

\* the TTL loop with an inclusive comparison
TtlIdsInclusive(first_level, ttl, now_us) ==
    IF ttl # None /\ ttl[1] > 0
    THEN Ids(SelectSeq(first_level,
                 LAMBDA g : LifetimeSec(now_us, g.created_at) >= ttl[1]))
    ELSE <<>>

\* the TTL loop: the ids of the L0 segments older than ttl_seconds, in L0 order
TtlIds(first_level, ttl, now_us) ==
    IF ttl # None /\ ttl[1] > 0
    THEN Ids(SelectSeq(first_level,
                 LAMBDA g : LifetimeSec(now_us, g.created_at) > ttl[1]))
    ELSE <<>>

\* u64::saturating_sub
SaturatingSub(a, b) == IF a > b THEN a - b ELSE 0

\* the size loop over the reversed level: stops once bytes_to_delete is 0
RECURSIVE TakeOldest(_, _)
TakeOldest(segs, bytes_to_delete) ==
    IF segs = <<>> \/ bytes_to_delete = 0 THEN <<>>
    ELSE <<Head(segs).id>>
             \o TakeOldest(Tail(segs), SaturatingSub(bytes_to_delete, Head(segs).file_size))

\* the size branch taken already at the limit, dropping at least the oldest
SizeIdsAtLimit(lv, lim) ==
    LET db_size == ManifestSize(lv)
    IN  IF db_size >= lim THEN TakeOldest(Reverse(lv[1]), db_size - lim + 1) ELSE <<>>

\* the size branch: taken when the manifest is larger than the limit
SizeIds(lv, lim) ==
    LET db_size == ManifestSize(lv)
    IN  IF db_size > lim THEN TakeOldest(Reverse(lv[1]), db_size - lim) ELSE <<>>

\* fifo::Strategy::choose
FifoChoose(lv, lim, ttl, now_us) ==
    LET segment_ids_to_delete == TtlIds(lv[1], ttl, now_us) \o SizeIds(lv, lim)
    IN  IF segment_ids_to_delete = <<>>
        THEN MaintenanceChoose(lv)
        ELSE DeleteSegments(segment_ids_to_delete)

----------------------------------------------------------------------------
(* The manifest under flushes, moves, the clock and FIFO compaction *)

\* a flush registers a new segment, created now, as the newest of L0
AddSegment ==
    /\ next_id <= MaxSegments
    /\ \E sz \in FileSizes :
          levels' = ManifestAdd(levels,
                        [id |-> next_id, file_size |-> sz, created_at |-> now])
    /\ next_id' = next_id + 1
    /\ UNCHANGED <<limit, ttl_seconds, now, choice, choice_levels, choice_now,
                   memVars, rdVars, extVars>>

\* another compaction moves the oldest L0 segment into L1
MoveSegment ==
    /\ levels[1] # <<>>
    /\ levels' = ManifestMoveOldest(levels)
    /\ UNCHANGED <<limit, ttl_seconds, now, next_id, choice, choice_levels,
                   choice_now, memVars, rdVars, extVars>>

\* time passes
Tick ==
    /\ now < MaxTicks * TickMicros
    /\ now' = now + TickMicros
    /\ UNCHANGED <<levels, limit, ttl_seconds, next_id, choice, choice_levels,
                   choice_now, memVars, rdVars, extVars>>

\* the manifest after a choose that reversed the manifest's own L0
AfterChooseInPlace(lv, lim) ==
    IF ManifestSize(lv) > lim THEN [lv EXCEPT ![1] = Reverse(@)] ELSE lv

\* the manifest after choose: it is borrowed shared, first_level is a clone
\* of L0 and the reversal is done on the clone
AfterChoose(lv, lim) == lv

\* the compactor asks the strategy; it may ask again before it acts
Choose ==
    /\ choice' = Some(FifoChoose(levels, limit, ttl_seconds, now))
    /\ choice_levels' = levels
    /\ choice_now' = now
    /\ levels' = AfterChoose(levels, limit)
    /\ UNCHANGED <<limit, ttl_seconds, now, next_id, memVars, rdVars, extVars>>

\* the compactor executes the choice: listed segments are dropped
Execute ==
    /\ choice # None
    /\ levels' = IF choice[1].kind = "DeleteSegments"
                 THEN ManifestRemove(levels, choice[1].ids)
                 ELSE levels
    /\ choice' = None
    /\ choice_levels' = EmptyLevels
    /\ choice_now' = 0
    /\ UNCHANGED <<limit, ttl_seconds, now, next_id, memVars, rdVars, extVars>>

----------------------------------------------------------------------------
(* Segment file trailer *)

TRAILER_MAGIC == <<76, 83, 77, 84, 84, 82, 76, 49>>
TRAILER_SIZE == 256

Ok(x) == [ok |-> TRUE, value |-> x]
Err(e) == [ok |-> FALSE, value |-> e]

\* the low four bytes hold the value, the bytes above them are zero
BEByte(n, w, i) == IF w - i >= 4 THEN 0 ELSE (n \div (256 ^ (w - i))) % 256

\* write_u64::<BigEndian> and its narrower and wider kin: w bytes, high first
WriteBE(n, w) == [i \in 1..w |-> BEByte(n, w, i)]

RECURSIVE BEValue(_)
BEValue(b) == IF b = <<>> THEN 0 ELSE BEValue(SubSeq(b, 1, Len(b) - 1)) * 256 + b[Len(b)]

\* read_u64::<BigEndian> and kin; a value of 2^31 or more, which no trailer
\* of the model holds, reads as -1
ReadBE(b) ==
    LET w == Len(b)
    IN  IF \E i \in 1..w : b[i] # 0 /\ (w - i >= 4 \/ (w - i = 3 /\ b[i] >= 128))
        THEN -1
        ELSE BEValue(SubSeq(b, IF w > 4 THEN w - 3 ELSE 1, w))

\* a length-prefixed byte string
WriteBytes(k) == WriteBE(Len(k), 2) \o k

\* the bytes of the metadata before the key range: id, created_at, the four
\* counts, file_size, uncompressed_size, block_size, block_count, the
\* compression and table type tags, seqnos
MetadataHeadLen == 8 + 16 + 8 + 8 + 8 + 8 + 8 + 8 + 4 + 4 + 1 + 1 + 8 + 8

\* Metadata::serialize
MetadataSerialize(m) ==
    WriteBE(m.id, 8) \o WriteBE(m.created_at, 16)
        \o WriteBE(m.item_count, 8) \o WriteBE(m.key_count, 8)
        \o WriteBE(m.tombstone_count, 8) \o WriteBE(m.range_tombstone_count, 8)
        \o WriteBE(m.file_size, 8) \o WriteBE(m.uncompressed_size, 8)
        \o WriteBE(m.block_size, 4) \o WriteBE(m.block_count, 4)
        \o <<m.compression, m.table_type>>
        \o WriteBE(m.seqnos[1], 8) \o WriteBE(m.seqnos[2], 8)
        \o WriteBytes(m.key_range[1]) \o WriteBytes(m.key_range[2])

\* Metadata::deserialize from the start of b: the metadata and the position
\* after it, or an error when the reader runs out of bytes or meets a bad tag
MetadataDeserialize(b) ==
    LET U(at, w) == ReadBE(SubSeq(b, at, at + w - 1))
        min_at   == MetadataHeadLen + 1
    IN  IF Len(b) < min_at + 1 THEN Err("Io")
        ELSE IF b[81] > 1 \/ b[82] > 0 THEN Err("InvalidTag")
        ELSE LET min_len == U(min_at, 2)
                 max_at  == min_at + 2 + min_len
             IN  IF Len(b) < max_at + 1 THEN Err("Io")
                 ELSE LET max_len == U(max_at, 2)
                          next    == max_at + 2 + max_len
                      IN  IF Len(b) < next - 1 THEN Err("Io")
                          ELSE Ok([metadata |->
                                     [id                    |-> U(1, 8),
                                      created_at            |-> U(9, 16),
                                      item_count            |-> U(25, 8),
                                      key_count             |-> U(33, 8),
                                      tombstone_count       |-> U(41, 8),
                                      range_tombstone_count |-> U(49, 8),
                                      file_size             |-> U(57, 8),
                                      uncompressed_size     |-> U(65, 8),
                                      block_size            |-> U(73, 4),
                                      block_count           |-> U(77, 4),
                                      compression           |-> b[81],
                                      table_type            |-> b[82],
                                      seqnos                |-> <<U(83, 8), U(91, 8)>>,
                                      key_range             |->
                                          <<SubSeq(b, min_at + 2, max_at - 1),
                                            SubSeq(b, max_at + 2, next - 1)>>],
                                   next |-> next])

\* Vec::resize(n, 0): truncates a longer vector, pads a shorter one with zeros
ResizePad(v, n) ==
    IF Len(v) >= n THEN SubSeq(v, 1, n) ELSE v \o [i \in 1..(n - Len(v)) |-> 0]

\* SegmentFileTrailer::serialize
TrailerSerialize(t) ==
    LET v == MetadataSerialize(t.metadata)
                 \o WriteBE(t.offsets.index_block_ptr, 8)
                 \o WriteBE(t.offsets.tli_ptr, 8)
                 \o WriteBE(t.offsets.bloom_ptr, 8)
                 \o WriteBE(t.offsets.range_tombstone_ptr, 8)
    IN  ResizePad(v, TRAILER_SIZE - Len(TRAILER_MAGIC)) \o TRAILER_MAGIC

\* SegmentFileTrailer::from_file on the last TRAILER_SIZE bytes of the file
TrailerFromFile(b) ==
    LET md == MetadataDeserialize(b)
    IN  IF ~md.ok THEN md
        ELSE LET at == md.value.next
                 U(i) == ReadBE(SubSeq(b, at + 8 * i, at + 8 * i + 7))
             IN  IF Len(b) < at + 31 THEN Err("Io")
                 ELSE Ok([metadata |-> md.value.metadata,
                          offsets  |-> [index_block_ptr     |-> U(0),
                                        tli_ptr             |-> U(1),
                                        bloom_ptr           |-> U(2),
                                        range_tombstone_ptr |-> U(3)]])

\* the lengths of the user keys of a key range, short to very long
KeyLens == {1, MaxKeyLen \div 2, MaxKeyLen, 2 * MaxKeyLen}
KeyOfLen(n) == [i \in 1..n |-> 97]

\* file offsets
Offsets == {0, 1, 300}

\* the metadata of a segment whose smallest and largest keys are lo and hi
MetadataOf(lo, hi, created) ==
    [block_count |-> 1, block_size |-> 4096, created_at |-> created, id |-> 1,
     file_size |-> 4096, compression |-> 1, table_type |-> 0,
     item_count |-> 2, key_count |-> 2, key_range |-> <<lo, hi>>,
     tombstone_count |-> 0, range_tombstone_count |-> 0,
     uncompressed_size |-> 4096, seqnos |-> <<0, 1>>]

Trailers ==
    {[metadata |-> MetadataOf(KeyOfLen(a), KeyOfLen(b), c),
      offsets  |-> [index_block_ptr |-> o1, tli_ptr |-> o2,
                    bloom_ptr |-> o3, range_tombstone_ptr |-> o4]] :
        a \in KeyLens, b \in KeyLens, c \in {0, 1000000},
        o1 \in Offsets, o2 \in {0, 1}, o3 \in {0, 1}, o4 \in Offsets}

\* the segment writer finishes a segment: the trailer goes to the end of the file
WriteTrailer ==
    /\ trl_src = None
    /\ \E t \in Trailers :
          /\ Len(t.metadata.key_range[1]) <= Len(t.metadata.key_range[2])
          /\ trl_src' = Some(t)
          /\ trl_file' = TrailerSerialize(t)
    /\ UNCHANGED <<trl_read, memVars, rdVars, fifoVars, mgVars, blobVars>>

\* the file is damaged on disk: its last byte, the magic's '1', becomes '0'
CorruptTrailer ==
    /\ trl_src # None
    /\ trl_read = None
    /\ trl_file[Len(trl_file)] = TRAILER_MAGIC[Len(TRAILER_MAGIC)]
    /\ trl_file' = [trl_file EXCEPT ![Len(trl_file)] = 48]
    /\ UNCHANGED <<trl_src, trl_read, memVars, rdVars, fifoVars, mgVars, blobVars>>

\* the segment is opened again
ReadTrailer ==
    /\ trl_src # None
    /\ trl_read = None
    /\ trl_read' = Some(TrailerFromFile(trl_file))
    /\ UNCHANGED <<trl_src, trl_file, memVars, rdVars, fifoVars, mgVars, blobVars>>

----------------------------------------------------------------------------
(* Blob tree: key-value separation at flush *)

\* the blob threshold of flush_memtable
BLOB_THRESHOLD == 2048

ValueOfLen(n) == [i \in 1..n |-> 7]

\* the values written to a blob tree: just below and at the threshold
BlobValues == {ValueOfLen(BLOB_THRESHOLD - 1), ValueOfLen(BLOB_THRESHOLD)}

\* the key and the values of a writer whose values are all separated
LargeKeys == {<<1>>}
LargeValues == {ValueOfLen(BLOB_THRESHOLD)}

Inline(bytes) == [kind |-> "Inline", bytes |-> bytes]
Indirect(handle, size) == [kind |-> "Indirect", handle |-> handle, size |-> size]
ValueHandle(offset, segment_id) == [offset |-> offset, segment_id |-> segment_id]

\* MaybeInlineValue::serialize: a tag, then length and bytes, or handle and size
SerializeValue(v) ==
    IF v.kind = "Inline" THEN SerializeInline(v.bytes)
    ELSE <<1, v.handle.segment_id, v.handle.offset, v.size>>

\* MaybeInlineValue::deserialize: fails on an empty input and on an unknown tag
DeserializeValue(raw) ==
    IF raw = <<>> THEN Err("Io")
    ELSE IF raw[1] = 0 THEN Ok(DeserializeInline(raw))
    ELSE IF raw[1] = 1 THEN Ok(Indirect(ValueHandle(raw[3], raw[2]), raw[4]))
    ELSE Err("InvalidTag")

\* value_log::SegmentWriter: the offset is the number of bytes written so far
NewBlobWriter(id) == [id |-> id, offset |-> 0, blobs |-> <<>>]
BlobWrite(w, key, bytes) ==
    [w EXCEPT !.offset = w.offset + Len(key) + Len(bytes),
              !.blobs  = Append(w.blobs, [offset |-> w.offset, user_key |-> key,
                                          bytes |-> bytes])]

\* the wrapper flush_memtable stores for a value, with values of exactly the
\* threshold still inlined
SeparateAbove(value, w) ==
    IF Len(value) <= BLOB_THRESHOLD
    THEN Inline(value)
    ELSE Indirect(ValueHandle(w.offset, w.id), Len(value))

\* the wrapper flush_memtable stores for a value: inline below the threshold,
\* else a handle (offset taken before the write, the writer's segment id) and the size
Separate(value, w) ==
    IF Len(value) < BLOB_THRESHOLD
    THEN Inline(value)
    ELSE Indirect(ValueHandle(w.offset, w.id), Len(value))

\* the ? operator on a decode error: it becomes crate::Error::Deserialize
FromDecodeError(e) == "Deserialize"

\* one round of the loop of flush_memtable that passes over an entry whose
\* value does not decode
FlushEntrySkipping(st, entry) ==
    LET value == DeserializeValue(entry.value)
    IN  IF ~value.ok THEN st
        ELSE IF value.value.kind # "Inline" THEN [st EXCEPT !.status = "panic"]
        ELSE LET bytes   == value.value.bytes
                 wrapper == Separate(bytes, st.w)
             IN  [status |-> st.status,
                  out    |-> Append(st.out,
                                 [user_key   |-> entry.user_key,
                                  seqno      |-> entry.seqno,
                                  value_type |-> entry.value_type,
                                  value      |-> SerializeValue(wrapper)]),
                  w      |-> IF wrapper.kind = "Indirect"
                             THEN BlobWrite(st.w, entry.user_key, bytes)
                             ELSE st.w]

\* one round of the loop of flush_memtable on the state st = [status, out, w]
FlushEntry(st, entry) ==
    LET value == DeserializeValue(entry.value)
    IN  IF ~value.ok THEN [st EXCEPT !.status = FromDecodeError(value.value)]
        ELSE IF value.value.kind # "Inline" THEN [st EXCEPT !.status = "panic"]
        ELSE LET bytes   == value.value.bytes
                 wrapper == Separate(bytes, st.w)
             IN  [status |-> st.status,
                  out    |-> Append(st.out,
                                 [user_key   |-> entry.user_key,
                                  seqno      |-> entry.seqno,
                                  value_type |-> entry.value_type,
                                  value      |-> SerializeValue(wrapper)]),
                  w      |-> IF wrapper.kind = "Indirect"
                             THEN BlobWrite(st.w, entry.user_key, bytes)
                             ELSE st.w]

\* the loop of flush_memtable over the memtable's items: stops at the first
\* entry that fails to decode (?) or is not inline (panic)
RECURSIVE FlushLoop(_, _)
FlushLoop(st, m) ==
    IF m = <<>> \/ st.status # "running" THEN st
    ELSE FlushLoop(FlushEntry(st, Head(m)), Tail(m))

\* a thread that panicked instead of returning
Panicked == [ok |-> FALSE, value |-> "panic"]

\* the flush of a memtable starts with a fresh segment writer and blob writer
FlushStart(blob_id) == [status |-> "running", out |-> <<>>, w |-> NewBlobWriter(blob_id)]

----------------------------------------------------------------------------
(* Blob tree: writers, the flusher, the garbage collector and scans *)

\* no thread is inside MemTable::insert, i.e. holds the read lock
NoReaders == \A t \in Threads : pc[t] = "idle"

\* the seqno the caller's monotonic counter hands to the next write
NextSeqno == InsertsStarted

\* BlobTree::insert: the read lock is taken, the counter updated
BlobInsert(t, keys, values, cap) ==
    /\ mt_writer = None
    /\ \E k \in keys, v \in values :
          InsertFetchAdd(t, InsertItem(k, v, NextSeqno), cap)

\* the item of raw_insert_with_lock with the value handed on as it came
RawItemBare(key, value, seqno, type) == NewValue(key, value, seqno, type)

\* the item raw_insert_with_lock builds: the value wrapped as Inline and
\* serialized, whatever the value type
RawItem(key, value, seqno, type) == NewValue(key, SerializeInline(value), seqno, type)

\* BlobTree::raw_insert_with_lock: the caller holds the write lock of the
\* active memtable, so MemTable::insert runs with no other writer inside
RawInsertWithLock(cap) ==
    /\ mt_writer = None
    /\ NoReaders
    /\ InsertsStarted < cap
    /\ \E k \in UserKeys, v \in UserValues, type \in {"Value", "Tombstone"} :
          LET item == RawItem(k, v, NextSeqno, type)
          IN  /\ approximate_size' = FetchAdd(approximate_size, ItemSize(item))
              /\ items' = MapInsert(items, item)
              /\ returned' = Append(returned,
                     <<ItemSize(item), NewTotal(approximate_size, ItemSize(item))>>)
    /\ UNCHANGED <<pc, pending, size_before, rdVars, fifoVars, extVars>>

\* BlobTree::remove: the read lock is taken, the counter updated
BlobRemove(t) ==
    /\ mt_writer = None
    /\ \E k \in UserKeys :
          InsertFetchAdd(t, RemoveItem(k, NextSeqno), MaxBlobInserts)

\* the queue without the sealed memtable id
Unseal(q, id) == SelectSeq(q, LAMBDA m : m.id # id)

\* flush_active_memtable returns e
FlushReturn(e) ==
    /\ fl_result' = Some(e)
    /\ fl_pc' = "idle"
    /\ fl_mem' = None
    /\ fl_out' = <<>>
    /\ fl_blob' = None

\* flush_active_memtable, rotate_memtable: under the write lock an empty
\* active memtable gives none, else it is sealed, queued and replaced
FlushRotate ==
    /\ fl_pc = "idle"
    /\ mt_writer = None
    /\ NoReaders
    /\ IF items = <<>>
       THEN /\ FlushReturn(Ok(None))
            /\ UNCHANGED <<items, approximate_size, sealed, next_segment_id>>
       ELSE /\ next_segment_id <= MaxBlobInserts
            /\ sealed' = Append(sealed, [id |-> next_segment_id, items |-> items])
            /\ fl_mem' = Some(next_segment_id)
            /\ items' = <<>>
            /\ approximate_size' = 0
            /\ next_segment_id' = next_segment_id + 1
            /\ fl_pc' = "rotated"
            /\ UNCHANGED <<fl_out, fl_blob, fl_result>>
    /\ UNCHANGED <<pc, pending, size_before, returned, rdVars, fifoVars, mgVars, trlVars,
                   segments, vlog, stale, next_blob_id, mt_writer, gcVars, scVars>>

\* the memtable the flusher holds: it shares it with the sealed queue
Yanked == CHOOSE m \in SeqToSet(sealed) : m.id = fl_mem[1]

\* flush_memtable up to the end of its loop: the writers are opened and every
\* entry of the yanked memtable is separated and written
FlushWrite ==
    /\ fl_pc = "rotated"
    /\ \E io_ok \in BOOLEAN :
          IF ~io_ok
          THEN FlushReturn(Err("Io")) /\ UNCHANGED next_blob_id
          ELSE LET st == FlushLoop(FlushStart(next_blob_id), Yanked.items)
               IN  /\ next_blob_id' = next_blob_id + 1
                   /\ IF st.status = "running"
                      THEN /\ fl_out' = st.out
                           /\ fl_blob' = Some(st.w)
                           /\ fl_pc' = "written"
                           /\ UNCHANGED <<fl_mem, fl_result>>
                      ELSE IF st.status = "panic"
                      THEN FlushReturn(Panicked)
                      ELSE FlushReturn(Err(st.status))
    /\ UNCHANGED <<memVars, rdVars, fifoVars, mgVars, trlVars, sealed, segments, vlog, stale,
                   next_segment_id, mt_writer, gcVars, scVars>>

\* flush_memtable, self.blobs.register(blob_writer)?
FlushRegisterBlobs ==
    /\ fl_pc = "written"
    /\ \E io_ok \in BOOLEAN :
          IF ~io_ok
          THEN FlushReturn(Err("Io")) /\ UNCHANGED vlog
          ELSE /\ vlog' = vlog \cup {[id |-> fl_blob[1].id, blobs |-> fl_blob[1].blobs]}
               /\ fl_pc' = "blobs_registered"
               /\ UNCHANGED <<fl_mem, fl_out, fl_blob, fl_result>>
    /\ UNCHANGED <<memVars, rdVars, fifoVars, mgVars, trlVars, sealed, segments, stale,
                   next_segment_id, next_blob_id, mt_writer, gcVars, scVars>>

\* flush_memtable, self.index.consume_writer(segment_id, segment_writer)?
FlushConsume ==
    /\ fl_pc = "blobs_registered"
    /\ \E io_ok \in BOOLEAN :
          IF ~io_ok
          THEN FlushReturn(Err("Io"))
          ELSE /\ fl_pc' = "consumed"
               /\ UNCHANGED <<fl_mem, fl_out, fl_blob, fl_result>>
    /\ UNCHANGED <<memVars, rdVars, fifoVars, mgVars, trlVars, sealed, segments, vlog, stale,
                   next_segment_id, next_blob_id, mt_writer, gcVars, scVars>>

\* flush_active_memtable, self.register_segments(&[segment])?: the segment
\* enters L0 and its sealed memtable leaves the queue, in one manifest update
FlushRegister ==
    /\ fl_pc = "consumed"
    /\ \E io_ok \in BOOLEAN :
          IF ~io_ok
          THEN FlushReturn(Err("Io")) /\ UNCHANGED <<segments, sealed>>
          ELSE /\ segments' = <<[id |-> fl_mem[1], entries |-> fl_out]>> \o segments
               /\ sealed' = Unseal(sealed, fl_mem[1])
               /\ FlushReturn(Ok(Some(fl_mem[1])))
    /\ UNCHANGED <<memVars, rdVars, fifoVars, mgVars, trlVars, vlog, stale,
                   next_segment_id, next_blob_id, mt_writer, gcVars, scVars>>

----------------------------------------------------------------------------
(* Blob tree: reading the index and the value log *)

RECURSIVE MergeInto(_, _)
MergeInto(acc, entries) ==
    IF entries = <<>> THEN acc ELSE MergeInto(MapInsert(acc, Head(entries)), Tail(entries))

RECURSIVE MergeSources(_, _)
MergeSources(acc, sources) ==
    IF sources = <<>> THEN acc
    ELSE MergeSources(MergeInto(acc, Head(sources)), Tail(sources))

\* the entries of the index tree in internal-key order: registered segments,
\* then sealed memtables, then the active memtable m, a newer source winning
IndexView(m) ==
    MergeSources(<<>>,
        [i \in 1..Len(segments) |-> segments[Len(segments) + 1 - i].entries]
            \o [i \in 1..Len(sealed) |-> sealed[i].items]
            \o <<m>>)

\* ValueLog::get: the blob of a registered segment, none if there is none
BlobsGet(handle) ==
    LET hits == {r \in UNION {{[id |-> b.id, blob |-> b.blobs[i]] : i \in 1..Len(b.blobs)} :
                                 b \in vlog} :
                    r.id = handle.segment_id /\ r.blob.offset = handle.offset}
    IN  IF hits = {} THEN None ELSE Some((CHOOSE r \in hits : TRUE).blob.bytes)

\* resolve_value_handle yielding an empty value where the decode fails
ResolveValueHandleLenient(item, io_ok) ==
    IF ~item.ok THEN item
    ELSE LET value == DeserializeValue(item.value.value)
         IN  IF ~value.ok THEN Ok(<<item.value.user_key, <<>>>>)
             ELSE IF value.value.kind = "Inline"
             THEN Ok(<<item.value.user_key, value.value.bytes>>)
             ELSE IF ~io_ok THEN Err("Io")
             ELSE LET blob == BlobsGet(value.value.handle)
                  IN  IF blob # None THEN Ok(<<item.value.user_key, blob[1]>>)
                      ELSE Panicked

\* resolve_value_handle on an item of the index iterator; io_ok tells whether
\* the value log can read its file
ResolveValueHandle(item, io_ok) ==
    IF ~item.ok THEN item
    ELSE LET value == DeserializeValue(item.value.value)
         IN  IF ~value.ok THEN Err(FromDecodeError(value.value))
             ELSE IF value.value.kind = "Inline"
             THEN Ok(<<item.value.user_key, value.value.bytes>>)
             ELSE IF ~io_ok THEN Err("Io")
             ELSE LET blob == BlobsGet(value.value.handle)
                  IN  IF blob # None THEN Ok(<<item.value.user_key, blob[1]>>)
                      ELSE Panicked

\* the user keys of a set, ascending
RECURSIVE SortKeys(_)
SortKeys(keys) ==
    IF keys = {} THEN <<>>
    ELSE LET k == CHOOSE k \in keys : \A o \in keys \ {k} : BytesLess(k, o)
         IN  <<k>> \o SortKeys(keys \ {k})

\* the entries the index tree's range iterator finds under a snapshot
\* (Option): per user key its newest entry below the snapshot, unless that is
\* a tombstone
RECURSIVE IndexRange(_, _, _)
IndexRange(view, keys, seqno) ==
    IF keys = <<>> THEN <<>>
    ELSE LET found == Get(view, Head(keys), seqno)
         IN  (IF found = None \/ found[1].value_type = "Tombstone"
              THEN <<>> ELSE <<found[1]>>)
                 \o IndexRange(view, Tail(keys), seqno)

\* what can go wrong while a scan reads: nothing, the index iterator fails to
\* load an entry, an entry's value comes back damaged, the value log fails to
\* read its file
ScanFaults == {"none", "index", "decode", "vlog"}

\* gc_scan_stats does not read the value log's files
StatsFaults == ScanFaults \ {"vlog"}

\* the snapshots a scan may read under
Snapshots == 1..(SeqNoMax + 1)

\* an entry whose value was damaged on disk: its tag byte is no tag
Damaged(entry) == [entry EXCEPT !.value = <<9>> \o Tail(@)]

\* the items of the index iterator: Ok entries, or errors where loading fails
IndexItems(found, fault) ==
    [i \in 1..Len(found) |->
        IF fault = "index" THEN Err("Io")
        ELSE IF fault = "decode" THEN Ok(Damaged(found[i]))
        ELSE Ok(found[i])]

\* the scan maps resolve_value_handle over the items and ends at a panic
RECURSIVE ScanItems(_, _)
ScanItems(found, io_ok) ==
    IF found = <<>> THEN <<>>
    ELSE LET item == ResolveValueHandle(Head(found), io_ok)
         IN  IF ~item.ok /\ item.value = "panic" THEN <<item>>
             ELSE <<item>> \o ScanItems(Tail(found), io_ok)

\* range_with_seqno(.., seqno) read to its end
Scan(seqnos, faults) ==
    /\ sc_in = None
    /\ mt_writer = None
    /\ \E seqno \in seqnos, fault \in faults :
          LET found == IndexRange(IndexView(items), SortKeys(UserKeys), Some(seqno))
              yielded == IndexItems(found, fault)
          IN  /\ sc_in' = Some([items |-> yielded, io_ok |-> fault # "vlog"])
              /\ sc_result' = Some(ScanItems(yielded, fault # "vlog"))
    /\ st_result' = st_result
    /\ UNCHANGED <<memVars, rdVars, fifoVars, mgVars, trlVars, sealed, segments, vlog, stale,
                   next_segment_id, next_blob_id, flVars, mt_writer, gcVars>>

\* the closure gc_scan_stats filters the index iterator with: an error for a
\* failed load or decode, handle and size of an indirect value, nothing for
\* an inline one
StatsItem(kv) ==
    IF ~kv.ok THEN Some(Err("Failed to load KV pair"))
    ELSE LET value == DeserializeValue(kv.value.value)
         IN  IF ~value.ok THEN Some(Err(value.value))
             ELSE IF value.value.kind = "Indirect"
             THEN Some(Ok(<<value.value.handle, value.value.size>>))
             ELSE None

RECURSIVE StatsItems(_)
StatsItems(yielded) ==
    IF yielded = <<>> THEN <<>> ELSE StatsItem(Head(yielded)) \o StatsItems(Tail(yielded))

\* ValueLog::scan_for_stats: stops at the first error of its input
RECURSIVE ScanForStats(_)
ScanForStats(q) ==
    IF q = <<>> THEN Ok(<<>>)
    ELSE IF ~Head(q).ok THEN Head(q)
    ELSE ScanForStats(Tail(q))

\* gc_scan_stats over the whole index
GcScanStats ==
    /\ sc_in = None
    /\ mt_writer = None
    /\ \E fault \in StatsFaults :
          LET found == IndexRange(IndexView(items), SortKeys(UserKeys), None)
              yielded == IndexItems(found, fault)
          IN  /\ sc_in' = Some([items |-> yielded, io_ok |-> TRUE])
              /\ st_result' = Some(ScanForStats(StatsItems(yielded)))
    /\ sc_result' = sc_result
    /\ UNCHANGED <<memVars, rdVars, fifoVars, mgVars, trlVars, sealed, segments, vlog, stale,
                   next_segment_id, next_blob_id, flVars, mt_writer, gcVars>>

----------------------------------------------------------------------------
(* Blob tree: garbage collection of the value log *)

GcFns == {"gc_with_target_space_amp", "gc_with_staleness_threshold", "gc_drop_stale"}

\* the gc function returns: the lock guard, if taken, is dropped
GcReturn ==
    /\ gc_pc' = "idle"
    /\ gc_fn' = None
    /\ gc_ids' = {}
    /\ mt_writer' = None

\* the blob is live: the index's newest entry of its key holds its handle
Live(view, id, blob) ==
    LET found == Get(view, blob.user_key, None)
    IN  /\ found # None
        /\ found[1].value_type = "Value"
        /\ LET value == DeserializeValue(found[1].value)
           IN  /\ value.ok
               /\ value.value.kind = "Indirect"
               /\ value.value.handle = ValueHandle(blob.offset, id)

\* the live blobs of the selected segments, by segment id and offset
RECURSIVE LiveBlobs(_, _)
LiveBlobs(view, ids) ==
    IF ids = {} THEN <<>>
    ELSE LET id  == CHOOSE i \in ids : \A o \in ids : i <= o
             seg == CHOOSE b \in vlog : b.id = id
         IN  SelectSeq(seg.blobs, LAMBDA blob : Live(view, id, blob))
                 \o LiveBlobs(view, ids \ {id})

\* rollover: every live blob is written to the new blob segment and GcWriter
\* inserts its new handle into the locked memtable under the gc seqno
RECURSIVE Rewrite(_, _, _)
Rewrite(st, live, seqno) ==
    IF live = <<>> THEN st
    ELSE LET blob == Head(live)
             item == NewValue(blob.user_key,
                         SerializeValue(Indirect(ValueHandle(st.w.offset, st.w.id),
                                                 Len(blob.bytes))),
                         seqno, "Value")
         IN  Rewrite([w    |-> BlobWrite(st.w, blob.user_key, blob.bytes),
                      m    |-> MapInsert(st.m, item),
                      size |-> FetchAdd(st.size, ItemSize(item))],
                     Tail(live), seqno)

\* gc_*: the segment ids are selected, before the lock is taken
GcSelect ==
    /\ gc_pc = "idle"
    /\ \E fn \in GcFns :
          /\ gc_fn' = Some(fn)
          /\ IF fn = "gc_drop_stale"
             THEN gc_ids' = {}
             ELSE \E ids \in SUBSET {b.id : b \in vlog} :
                      /\ ids \cap stale = {}
                      /\ ids # {} => next_blob_id <= MaxBlobSegments
                      /\ gc_ids' = ids
    /\ gc_pc' = "selected"
    /\ UNCHANGED <<memVars, rdVars, fifoVars, mgVars, trlVars, sealed, segments, vlog, stale,
                   next_segment_id, next_blob_id, flVars, mt_writer, scVars>>

\* a lock that is shared with the writers
GcLockShared ==
    /\ gc_pc = "selected"
    /\ mt_writer = None
    /\ gc_pc' = "locked"
    /\ UNCHANGED <<memVars, rdVars, fifoVars, mgVars, trlVars, sealed, segments, vlog, stale,
                   next_segment_id, next_blob_id, flVars, gc_fn, gc_ids, scVars,
                   mt_writer>>

\* self.index.lock_active_memtable(): waits for the writers to leave
GcLock ==
    /\ gc_pc = "selected"
    /\ mt_writer = None
    /\ NoReaders
    /\ mt_writer' = Some("gc")
    /\ gc_pc' = "locked"
    /\ UNCHANGED <<memVars, rdVars, fifoVars, mgVars, trlVars, sealed, segments, vlog, stale,
                   next_segment_id, next_blob_id, flVars, gc_fn, gc_ids, scVars>>

\* self.blobs.rollover(&ids, &GcReader, GcWriter)?
GcRollover ==
    /\ gc_pc = "locked"
    /\ gc_fn # Some("gc_drop_stale")
    /\ \E io_ok \in BOOLEAN, seqno \in {SeqNoMax} :
          IF ~io_ok
          THEN /\ GcReturn
               /\ UNCHANGED <<items, approximate_size, vlog, stale, next_blob_id>>
          ELSE IF gc_ids = {}
          THEN /\ gc_pc' = "rolled"
               /\ UNCHANGED <<items, approximate_size, vlog, stale, next_blob_id,
                              gc_fn, gc_ids, mt_writer>>
          ELSE LET st == Rewrite([w    |-> NewBlobWriter(next_blob_id),
                                  m    |-> items,
                                  size |-> approximate_size],
                                 LiveBlobs(IndexView(items), gc_ids), seqno)
               IN  /\ items' = st.m
                   /\ approximate_size' = st.size
                   /\ vlog' = vlog \cup {[id |-> st.w.id, blobs |-> st.w.blobs]}
                   /\ stale' = stale \cup gc_ids
                   /\ next_blob_id' = next_blob_id + 1
                   /\ gc_pc' = "rolled"
                   /\ UNCHANGED <<gc_fn, gc_ids, mt_writer>>
    /\ UNCHANGED <<pc, pending, size_before, returned, rdVars, fifoVars, mgVars, trlVars,
                   sealed, segments, next_segment_id, flVars, scVars>>

\* self.blobs.drop_stale_segments()?
GcDropStale ==
    /\ \/ gc_pc = "rolled"
       \/ gc_pc = "locked" /\ gc_fn = Some("gc_drop_stale")
    /\ \E io_ok \in BOOLEAN :
          IF ~io_ok
          THEN GcReturn /\ UNCHANGED <<vlog, stale>>
          ELSE /\ vlog' = {b \in vlog : b.id \notin stale}
               /\ stale' = {}
               /\ gc_pc' = "dropped"
               /\ UNCHANGED <<gc_fn, gc_ids, mt_writer>>
    /\ UNCHANGED <<memVars, rdVars, fifoVars, mgVars, trlVars, sealed, segments,
                   next_segment_id, next_blob_id, flVars, scVars>>

\* Ok(()) is returned and the lock guard dropped
GcFinish ==
    /\ gc_pc = "dropped"
    /\ GcReturn
    /\ UNCHANGED <<memVars, rdVars, fifoVars, mgVars, trlVars, sealed, segments, vlog, stale,
                   next_segment_id, next_blob_id, flVars, scVars>>

----------------------------------------------------------------------------
(* Merger: the k-way merge over sorted sources, driven as benches/merge.rs *)
(* drives it                                                               *)

\* the memtables the benchmark builds, one source each
BenchSources == {1, 2, 3}

\* InternalValue::from_components(key, vec![], seqno, ValueType::Value)
BenchItem(key, seqno) == NewValue(key, <<>>, seqno, "Value")

\* x.iter().map(Ok), boxed: the entries the iterator has yet to yield; a
\* source that fails yields an error after them
SourceIter(m, fails) == [entries |-> m, fails |-> fails]

\* the snapshot filter: an entry newer than the snapshot is dropped
SnapshotDrops(entry_seqno, snapshot) ==
    snapshot # None /\ entry_seqno > snapshot[1]

\* the heads the min-heap may pop: no head sorts before them
MinHeads(heap) ==
    {h \in heap : \A g \in heap : ~InternalKeyLess(g.item, h.item)}

\* a push that keeps one head per internal key
HeapPushUnique(heap, src, item) ==
    IF \E g \in heap : g.item.user_key = item.user_key /\ g.item.seqno = item.seqno
    THEN heap
    ELSE heap \cup {[src |-> src, item |-> item]}

\* the heap holds the head of each non-exhausted source, with its source
HeapPush(heap, src, item) == heap \cup {[src |-> src, item |-> item]}

\* advance a source and push its new head; an error ends the merge
Advance(st, src) ==
    IF st.rest[src].entries = <<>>
    THEN IF st.rest[src].fails
         THEN [st EXCEPT !.rest[src].fails = FALSE, !.err = Some("Io")]
         ELSE st
    ELSE [st EXCEPT !.rest[src].entries = Tail(@),
                    !.heap = HeapPush(@, src, Head(st.rest[src].entries))]

\* the first call fills the heap with the head of every source
RECURSIVE FillHeap(_, _)
FillHeap(st, srcs) ==
    IF srcs = {} THEN [st EXCEPT !.filled = TRUE]
    ELSE LET src == CHOOSE s \in srcs : \A o \in srcs : s <= o
         IN FillHeap(Advance(st, src), srcs \ {src})

\* dedup that never skips
SkipsNever(last, user_key, dedup) == FALSE

\* dedup: after a user_key was emitted, later entries with it are skipped
Skips(last, user_key, dedup) == dedup /\ last = Some(user_key)

\* Merger::new(iters), with the dedup and snapshot options
MergerOf(iters) ==
    [rest |-> iters, heap |-> {}, filled |-> FALSE, last |-> None, err |-> None]

\* the merger's state after an error: nothing more is emitted
Terminated(st) ==
    [st EXCEPT !.heap = {}, !.rest = [s \in DOMAIN @ |-> SourceIter(<<>>, FALSE)]]

\* Iterator::next: the outcomes of one call, the merger's new state with the
\* entry or the error it yields; heads with equal internal keys may be popped
\* in either order
RECURSIVE MergerNextFrom(_, _)
MergerNextFrom(st, cfg) ==
    IF ~st.filled THEN MergerNextFrom(FillHeap(st, DOMAIN st.rest), cfg)
    ELSE IF st.err # None
    THEN {[st |-> Terminated([st EXCEPT !.err = None]), item |-> None, err |-> st.err]}
    ELSE IF st.heap = {} THEN {[st |-> st, item |-> None, err |-> None]}
    ELSE UNION {
        LET popped == [st EXCEPT !.heap = @ \ {h}]
            pushed == Advance(popped, h.src)
        IN  IF pushed.err # None THEN MergerNextFrom(pushed, cfg)
            ELSE IF \/ SnapshotDrops(h.item.seqno, cfg.seqno)
                    \/ Skips(st.last, h.item.user_key, cfg.dedup)
            THEN MergerNextFrom(pushed, cfg)
            ELSE {[st   |-> [pushed EXCEPT !.last = Some(h.item.user_key)],
                   item |-> Some(h.item), err |-> None]}
        : h \in MinHeads(st.heap)}

\* entries inserted into the benchmark's memtables so far
RECURSIVE TotalLen(_, _)
TotalLen(tables, srcs) ==
    IF srcs = {} THEN 0
    ELSE LET src == CHOOSE s \in srcs : TRUE
         IN Len(tables[src]) + TotalLen(tables, srcs \ {src})

\* table.insert(InternalValue::from_components(..)) on one of the memtables
BenchInsert ==
    /\ mg_pc = "build"
    /\ TotalLen(mg_tables, BenchSources) < MaxMergeInserts
    /\ \E src \in BenchSources, k \in UserKeys, s \in SeqNos :
          mg_tables' = [mg_tables EXCEPT ![src] = MapInsert(@, BenchItem(k, s))]
    /\ UNCHANGED <<mg_pc, mg_cfg, mg_fail, mg_st, mg_out>>
    /\ UNCHANGED <<memVars, rdVars, fifoVars, trlVars, blobVars>>

\* Merger::new over the boxed iterators of the memtables
MergerNew ==
    /\ mg_pc = "build"
    /\ \E dedup \in BOOLEAN, seqno \in {None} \cup {Some(s) : s \in SeqNos},
          fail \in {None} \cup {Some(src) : src \in BenchSources} :
          /\ mg_cfg' = [dedup |-> dedup, seqno |-> seqno]
          /\ mg_fail' = fail
          /\ mg_st' = MergerOf([src \in BenchSources |->
                                   SourceIter(mg_tables[src], fail = Some(src))])
    /\ mg_pc' = "merging"
    /\ UNCHANGED <<mg_tables, mg_out>>
    /\ UNCHANGED <<memVars, rdVars, fifoVars, trlVars, blobVars>>

\* one call of Iterator::next, as merger.count() makes them
MergerNext ==
    /\ mg_pc = "merging"
    /\ \E r \in MergerNextFrom(mg_st, mg_cfg) :
          /\ mg_st' = r.st
          /\ mg_out' = IF r.item # None THEN Append(mg_out, Ok(r.item[1]))
                        ELSE IF r.err # None THEN Append(mg_out, Err(r.err[1]))
                        ELSE mg_out
          /\ mg_pc' = IF r.item = None /\ r.err = None THEN "done" ELSE "merging"
    /\ UNCHANGED <<mg_tables, mg_cfg, mg_fail>>
    /\ UNCHANGED <<memVars, rdVars, fifoVars, trlVars, blobVars>>

----------------------------------------------------------------------------
(* Initial state: MemTable::default(), no read in progress, an empty manifest *)

InitMem ==
    /\ items = <<>>
    /\ approximate_size = 0
    /\ pc = [t \in Threads |-> "idle"]
    /\ pending = [t \in Threads |-> None]
    /\ size_before = [t \in Threads |-> 0]
    /\ returned = <<>>

InitRd ==
    /\ rd_pc = "idle"
    /\ rd_key = <<>>
    /\ rd_seqno = None
    /\ rd_cursor = None
    /\ rd_result = None
    /\ rd_start = <<>>
    /\ rd_dirty = FALSE

InitManifest ==
    /\ levels = EmptyLevels
    /\ now = 0
    /\ next_id = 1
    /\ choice = None
    /\ choice_levels = EmptyLevels
    /\ choice_now = 0

\* no segment file written yet
InitTrailer ==
    /\ trl_src = None
    /\ trl_file = <<>>
    /\ trl_read = None

\* BlobTree::open on an empty folder: nothing sealed, flushed or collected
InitBlob ==
    /\ sealed = <<>>
    /\ segments = <<>>
    /\ vlog = {}
    /\ stale = {}
    /\ next_segment_id = 1
    /\ next_blob_id = 1
    /\ fl_pc = "idle"
    /\ fl_mem = None
    /\ fl_out = <<>>
    /\ fl_blob = None
    /\ fl_result = None
    /\ mt_writer = None
    /\ gc_pc = "idle"
    /\ gc_fn = None
    /\ gc_ids = {}
    /\ sc_result = None
    /\ sc_in = None
    /\ st_result = None

\* the benchmark before its first insert: thirty (here three) empty memtables
InitMerge ==
    /\ mg_tables = [src \in BenchSources |-> <<>>]
    /\ mg_pc = "build"
    /\ mg_cfg = [dedup |-> FALSE, seqno |-> None]
    /\ mg_fail = None
    /\ mg_st = MergerOf([src \in BenchSources |-> SourceIter(<<>>, FALSE)])
    /\ mg_out = <<>>

InitExt == InitTrailer /\ InitBlob /\ InitMerge

\* no compaction strategy in play
InitFifo ==
    /\ InitManifest
    /\ limit = 0
    /\ ttl_seconds = None

\* Strategy::new(limit, ttl_seconds)
InitStrategy ==
    /\ InitManifest
    /\ limit \in Limits
    /\ ttl_seconds \in Ttls

Init == InitMem /\ InitRd /\ InitFifo /\ InitExt

\* one writer on one memtable
NextSeq ==
    \/ TreeInsert(1, MaxSeqInserts)
    \/ TreeRemove(1, MaxSeqInserts)
    \/ InsertLink(1)

SpecSeq == Init /\ [][NextSeq]_vars

\* concurrent writers on one memtable
NextMem ==
    \E t \in Threads :
        \/ TreeInsert(t, MaxInserts)
        \/ TreeRemove(t, MaxInserts)
        \/ InsertLink(t)

SpecMem == Init /\ [][NextMem]_vars

\* one writer and one reader on one memtable
NextRead ==
    \/ TreeInsert(1, MaxReadInserts)
    \/ TreeRemove(1, MaxReadInserts)
    \/ InsertLink(1)
    \/ ReadBegin
    \/ ReadNext
    \/ ReadReturn

SpecRead == Init /\ [][NextRead]_vars

\* segment files written and opened again
NextTrailer ==
    \/ WriteTrailer
    \/ CorruptTrailer
    \/ ReadTrailer

SpecTrailer == Init /\ [][NextTrailer]_vars

\* a blob tree with one writer and the flusher
NextFlush ==
    \/ BlobInsert(1, UserKeys, BlobValues, MaxBlobInserts)
    \/ BlobRemove(1)
    \/ InsertLink(1)
    \/ FlushRotate
    \/ FlushWrite
    \/ FlushRegisterBlobs
    \/ FlushConsume
    \/ FlushRegister

SpecFlush == Init /\ [][NextFlush]_vars

\* a blob tree written through insert and raw_insert_with_lock only, and the
\* flusher
NextInline ==
    \/ BlobInsert(1, UserKeys, BlobValues, MaxInlineInserts)
    \/ InsertLink(1)
    \/ RawInsertWithLock(MaxInlineInserts)
    \/ FlushRotate
    \/ FlushWrite
    \/ FlushRegisterBlobs
    \/ FlushConsume
    \/ FlushRegister

SpecInline == Init /\ [][NextInline]_vars

\* a blob tree with one writer of large values under one key, the flusher,
\* the garbage collector and scans
NextBlob ==
    \/ BlobInsert(1, LargeKeys, LargeValues, MaxGcInserts)
    \/ InsertLink(1)
    \/ FlushRotate
    \/ FlushWrite
    \/ FlushRegisterBlobs
    \/ FlushConsume
    \/ FlushRegister
    \/ GcSelect
    \/ GcLock
    \/ GcRollover
    \/ GcDropStale
    \/ GcFinish
    \/ Scan(Snapshots, {"none"})

SpecBlob == Init /\ [][NextBlob]_vars

\* a blob tree with one writer of small and large values, the flusher, and a
\* scan or a statistics scan of the newest state that meets read faults
NextScan ==
    \/ BlobInsert(1, UserKeys, BlobValues, MaxScanInserts)
    \/ InsertLink(1)
    \/ FlushRotate
    \/ FlushWrite
    \/ FlushRegisterBlobs
    \/ FlushConsume
    \/ FlushRegister
    \/ Scan({SeqNoMax + 1}, ScanFaults)
    \/ GcScanStats

SpecScan == Init /\ [][NextScan]_vars

\* the merge benchmark: build the memtables, merge them, count the output
NextMerge ==
    \/ BenchInsert
    \/ MergerNew
    \/ MergerNext

SpecMerge == Init /\ [][NextMerge]_vars

\* a manifest compacted by the FIFO strategy
NextFifo ==
    \/ AddSegment
    \/ MoveSegment
    \/ Tick
    \/ Choose
    \/ Execute

\* an empty memtable and a strategy built by Strategy::new over an empty manifest
InitCompaction == InitMem /\ InitRd /\ InitStrategy /\ InitExt

SpecFifo == InitCompaction /\ [][NextFifo]_vars

----------------------------------------------------------------------------
(* Properties of the memtable *)

\* keys asked for by point reads: the stored keys, their prefixes and
\* extensions, and keys that sort before, between and after them
ProbeKeys == UserKeys \cup {<<>>, <<0>>, <<1, 0>>, <<1, 1, 1>>, <<2>>}

\* the entries of m with user key k and a seqno below bound
VersionsBelow(m, k, bound) ==
    {m[i] : i \in {j \in 1..Len(m) : m[j].user_key = k /\ m[j].seqno < bound}}

\* all entries of m with user key k
VersionsOf(m, k) == VersionsBelow(m, k, SeqNoMax + 1)

\* the entry with the highest seqno of a set of versions, none for the empty set
Newest(versions) ==
    IF versions = {} THEN None
    ELSE Some(CHOOSE e \in versions : \A f \in versions : f.seqno <= e.seqno)

\* C1: get(key, None) returns the entry with the highest seqno among the
\* entries whose user_key equals key exactly, and none when there is no such
\* entry, also when prefixes or extensions of key are stored.
C1_GetNewest ==
    \A k \in ProbeKeys : Get(items, k, None) = Newest(VersionsOf(items, k))

\* "aa" is stored with a newer seqno than "a", "a" has two versions, and
\* get("a") answers the newer "a" while get of the absent "aaa" answers none
C1_Witness ==
    /\ Cardinality(VersionsOf(items, <<1>>)) >= 2
    /\ \E e \in VersionsOf(items, <<1, 1>>) :
           \A f \in VersionsOf(items, <<1>>) : f.seqno < e.seqno
    /\ Get(items, <<1>>, None) # None
    /\ Get(items, <<1, 1, 1>>, None) = None

\* C2: get(key, Some(s)) returns, among the entries whose user_key equals key,
\* the one with the greatest seqno strictly below s, and none when every entry
\* of the key has seqno >= s; it never returns an entry of another key.
C2_GetSnapshot ==
    \A k \in ProbeKeys, s \in SeqNos :
        Get(items, k, Some(s)) = Newest(VersionsBelow(items, k, s))

\* a key with a version below and a version at or above the snapshot
C2_Witness ==
    \E k \in UserKeys, s \in SeqNos :
        /\ VersionsBelow(items, k, s) # {}
        /\ VersionsOf(items, k) # VersionsBelow(items, k, s)
        /\ Get(items, k, Some(s)) # None
        /\ Get(items, k, Some(0)) = None

\* the versions of the read's key that were in the map when the read began
\* and whose seqno the predicate admits for the snapshot
SeenAtStart(Admits(_, _)) ==
    {e \in VersionsOf(rd_start, rd_key) : Admits(e.seqno, rd_seqno[1])}

AtOrBelow(a, b) == a <= b
Below(a, b) == a < b

\* C3 as stated: a finished snapshot read of k at s' returns an entry of k
\* with seqno >= s for every write (k, s) with s <= s' that was in the map
\* when the read began, and it returns only entries with seqno <= s'.
C3_Original ==
    (rd_pc = "done" /\ rd_seqno # None) =>
        /\ \A e \in SeenAtStart(AtOrBelow) :
               /\ rd_result # None
               /\ rd_result[1].user_key = rd_key
               /\ rd_result[1].seqno >= e.seqno
        /\ rd_result # None => rd_result[1].seqno <= rd_seqno[1]

\* C3 amended: a finished snapshot read of k at s' returns an entry of k with
\* seqno >= s for every write (k, s) with s < s' that was in the map when the
\* read began, and it returns only entries with seqno < s'.
C3_WriteVisible ==
    (rd_pc = "done" /\ rd_seqno # None) =>
        /\ \A e \in SeenAtStart(Below) :
               /\ rd_result # None
               /\ rd_result[1].user_key = rd_key
               /\ rd_result[1].seqno >= e.seqno
        /\ rd_result # None => rd_result[1].seqno < rd_seqno[1]

\* a read that began after a write below its snapshot, ran next to another
\* insert, and returned an entry
C3_Witness ==
    /\ rd_pc = "done"
    /\ rd_seqno # None
    /\ SeenAtStart(Below) # {}
    /\ items # rd_start
    /\ rd_result # None

\* C4: the result of get(k, s0) is the one the map gave when the read began,
\* and the map still gives it, as long as every insert and remove since then
\* has a seqno greater than s0, whatever key it touches.
C4_SnapshotStable ==
    (rd_pc = "done" /\ rd_seqno # None /\ ~rd_dirty) =>
        /\ rd_result = Get(rd_start, rd_key, rd_seqno)
        /\ rd_result = Get(items, rd_key, rd_seqno)

\* a snapshot read that returned an entry although a newer version of its own
\* key was linked after it began
C4_Witness ==
    /\ rd_pc = "done"
    /\ rd_seqno # None
    /\ ~rd_dirty
    /\ rd_result # None
    /\ VersionsOf(items, rd_key) # VersionsOf(rd_start, rd_key)

\* C5: for every key and snapshot seqnos s1 < s2, when get(k, s1) returns an
\* entry then get(k, s2) returns that entry or one with a greater seqno.
C5_MvccMonotone ==
    \A k \in ProbeKeys, s1 \in SeqNos, s2 \in SeqNos :
        LET r1 == Get(items, k, Some(s1))
            r2 == Get(items, k, Some(s2))
        IN  (s1 < s2 /\ r1 # None) =>
                /\ r2 # None
                /\ r2 = r1 \/ r2[1].seqno > r1[1].seqno

\* both cases: a later snapshot sees a newer version, another sees the same one
C5_Witness ==
    \E k \in UserKeys :
        /\ Get(items, k, Some(1)) # None
        /\ Get(items, k, Some(2)) # Get(items, k, Some(1))
        /\ \E j \in UserKeys :
               /\ Get(items, j, Some(1)) # None
               /\ Get(items, j, Some(2)) = Get(items, j, Some(1))

\* key k has a value at s1, a tombstone at s2 > s1, and no version in between
InsertThenRemove(k, s1, s2) ==
    /\ s1 < s2
    /\ InsertItem(k, <<7>>, s1) \in VersionsOf(items, k)
    /\ RemoveItem(k, s2) \in VersionsOf(items, k)
    /\ VersionsBelow(items, k, s2) = VersionsBelow(items, k, s1 + 1)

\* C6: after insert(k, v, s1) and remove(k, s2) with s2 > s1, get(k, s) is v
\* for s1 < s <= s2, and none for every s > s2 up to the next write of k.
C6_TombstoneVisible ==
    \A k \in UserKeys, s1 \in SeqNos, s2 \in SeqNos :
        InsertThenRemove(k, s1, s2) =>
            \A s \in SeqNos :
                /\ (s1 < s /\ s <= s2) => GetWithSeqno(items, k, s) = Some(<<7>>)
                /\ (s > s2 /\ VersionsBelow(items, k, s) = VersionsBelow(items, k, s2 + 1))
                       => GetWithSeqno(items, k, s) = None

\* a value at seqno 0 and a tombstone at seqno 1: the read at 1 gives the
\* value, the read at 2 gives none
C6_Witness ==
    \E k \in UserKeys :
        /\ InsertThenRemove(k, 0, 1)
        /\ GetWithSeqno(items, k, 1) = Some(<<7>>)
        /\ GetWithSeqno(items, k, 2) = None

\* the list is strictly increasing: user_key ascending, seqno descending
StrictlyOrdered(m) ==
    \A i \in 1..Len(m), j \in 1..Len(m) :
        i < j => \/ BytesLess(m[i].user_key, m[j].user_key)
                 \/ m[i].user_key = m[j].user_key /\ m[i].seqno > m[j].seqno

HasKey(m, e) ==
    \E i \in 1..Len(m) : m[i].user_key = e.user_key /\ m[i].seqno = e.seqno

\* C7: after every step the memtable iterates strictly increasing by
\* (user_key ascending, seqno descending), every (user_key, seqno) that was
\* in it is still in it, and a finished insert's item is in it.
C7_InternalKeyOrder ==
    [][ /\ StrictlyOrdered(items')
        /\ \A i \in 1..Len(items) : HasKey(items', items[i])
        /\ \A t \in Threads :
               (pc[t] = "added" /\ pc'[t] = "idle") =>
                   \E i \in 1..Len(items') : items'[i] = pending[t][1]
      ]_vars

\* three versions of one key, inserted oldest last
C7_Witness ==
    /\ Len(items) = 3
    /\ Len(returned) = 3
    /\ \E k \in UserKeys : Cardinality(VersionsOf(items, k)) = 3
    /\ items[1].seqno = 2

\* every fetch_add so far: the pairs already returned and the pairs the
\* inserts in flight are going to return
Adds ==
    LET inflight == {t \in Threads : pc[t] = "added"}
        one(t) == <<ItemSize(pending[t][1]), size_before[t] + ItemSize(pending[t][1])>>
    IN  returned
        \o (IF 1 \in inflight THEN <<one(1)>> ELSE <<>>)
        \o (IF 2 \in inflight THEN <<one(2)>> ELSE <<>>)

RECURSIVE SumSizes(_)
SumSizes(a) == IF a = <<>> THEN 0 ELSE Head(a)[1] + SumSizes(Tail(a))

\* C8: insert returns (entry_size, counter before its add + entry_size): each
\* total is its own size plus the sizes of the adds with a smaller total; the
\* counter is the sum of the sizes of all items added, and the totals are
\* pairwise distinct.
C8_SizeCounter ==
    LET adds == Adds
    IN  /\ Size = SumSizes(adds)
        /\ \A i \in 1..Len(adds) :
               adds[i][2] = adds[i][1]
                   + SumSizes(SelectSeq(adds, LAMBDA q : q[2] < adds[i][2]))
        /\ \A i \in 1..Len(adds), j \in 1..Len(adds) :
               i # j => adds[i][2] # adds[j][2]

\* two inserts in flight at once after a third has returned
C8_Witness ==
    /\ pc[1] = "added"
    /\ pc[2] = "added"
    /\ Len(returned) = 1
    /\ Size = SumSizes(Adds)

----------------------------------------------------------------------------
(* Properties of the FIFO strategy *)

\* the bytes of the n oldest segments of a list given oldest first
PrefixSize(oldest, n) == SumFileSizes(SubSeq(oldest, 1, n))

\* C9: whenever the manifest is larger than the limit, choose returns
\* DeleteSegments, and its list is the shortest oldest-first prefix of L0
\* whose file sizes sum to at least excess = total - limit, oldest first.
C9_Original ==
    (choice # None /\ ManifestSize(choice_levels) > limit) =>
        LET oldest == Reverse(choice_levels[1])
            excess == ManifestSize(choice_levels) - limit
        IN  /\ choice[1].kind = "DeleteSegments"
            /\ \E n \in 1..Len(oldest) :
                   /\ PrefixSize(oldest, n) >= excess
                   /\ \A m \in 1..(n - 1) : PrefixSize(oldest, m) < excess
                   /\ choice[1].ids = Ids(SubSeq(oldest, 1, n))

\* C10: whenever choose returns DeleteSegments for a manifest larger than the
\* limit, the manifest without the listed segments is at most limit bytes.
C10_Original ==
    (/\ choice # None
     /\ choice[1].kind = "DeleteSegments"
     /\ ManifestSize(choice_levels) > limit) =>
        ManifestSize(ManifestRemove(choice_levels, choice[1].ids)) <= limit

\* the TTL is enabled and the segment has lived more whole seconds than it
Expired(g) ==
    /\ ttl_seconds # None
    /\ ttl_seconds[1] > 0
    /\ (choice_now - g.created_at) \div (1000 * 1000) > ttl_seconds[1]

\* the L0 segments of the manifest the last choose ran on
ChosenL0 == SeqToSet(choice_levels[1])

\* C11: an L0 segment older in whole seconds than a TTL > 0 is always in the
\* list choose returns; when the size branch is not taken (total <= limit) the
\* list holds exactly those segments, so a segment whose whole-second lifetime
\* equals the TTL is not listed, and a TTL of None or 0 lists nothing.
C11_TtlStrict ==
    choice # None =>
        \A g \in ChosenL0 :
            /\ Expired(g) =>
                   /\ choice[1].kind = "DeleteSegments"
                   /\ g.id \in SeqToSet(choice[1].ids)
            /\ (ManifestSize(choice_levels) <= limit /\ ~Expired(g)) =>
                   g.id \notin SeqToSet(choice[1].ids)

\* under a TTL of one second and below the limit, choose listed a segment that
\* lived two seconds and left one that lived a second and a half
C11_Witness ==
    /\ choice # None
    /\ ttl_seconds = Some(1)
    /\ ManifestSize(choice_levels) <= limit
    /\ \E g, h \in ChosenL0 :
           /\ choice_now - g.created_at = 4 * TickMicros
           /\ choice_now - h.created_at = 3 * TickMicros
           /\ g.id \in SeqToSet(choice[1].ids)
           /\ h.id \notin SeqToSet(choice[1].ids)

\* C12: when no L0 segment is TTL-expired and the manifest is at most limit
\* bytes (equality included), choose does not return DeleteSegments: it
\* returns the maintenance strategy's choice, DoNothing for an empty manifest
\* and for L0 segments of size 1 within the limit.
C12_BelowLimit ==
    (/\ choice # None
     /\ ManifestSize(choice_levels) <= limit
     /\ \A g \in ChosenL0 : ~Expired(g)) =>
        /\ choice[1].kind # "DeleteSegments"
        /\ choice[1] = MaintenanceChoose(choice_levels)
        /\ (\A l \in 1..NumLevels : choice_levels[l] = <<>>) => choice[1] = DoNothing
        /\ (/\ \A l \in 2..NumLevels : choice_levels[l] = <<>>
            /\ Len(choice_levels[1]) <= 4
            /\ \A g \in ChosenL0 : g.file_size = 1) => choice[1] = DoNothing

\* choose ran on three L0 segments of size 1 filling the limit exactly
C12_Witness ==
    /\ choice = Some(DoNothing)
    /\ Len(choice_levels[1]) = 3
    /\ \A g \in ChosenL0 : g.file_size = 1
    /\ ManifestSize(choice_levels) = limit

----------------------------------------------------------------------------
(* Properties of the segment file trailer *)

\* the last n bytes
LastBytes(b, n) == SubSeq(b, Len(b) - n + 1, Len(b))

\* C13: for every trailer, long keys in the key range included, serialize
\* writes exactly 256 bytes ending in the magic LSMTTRL1, and from_file on
\* those bytes yields the metadata and the four offsets of the original.
C13_Original ==
    /\ trl_src # None =>
           /\ Len(trl_file) = 256
           /\ LastBytes(trl_file, 8) = TRAILER_MAGIC
    /\ trl_read # None => (trl_read[1].ok /\ trl_read[1].value = trl_src[1])

----------------------------------------------------------------------------
(* Properties of the blob tree's flush *)

\* the flusher is past the loop of flush_memtable
LoopDone == fl_pc \in {"written", "blobs_registered", "consumed"}

\* the user value insert wrapped into the memtable entry
UserValue(entry) == DeserializeInline(entry.value).bytes

\* the wrapper flush_memtable handed to the segment writer
Stored(entry) == DeserializeValue(entry.value).value

\* the bytes the blob writer holds before its j-th blob
RECURSIVE OffsetBefore(_, _)
OffsetBefore(blobs, j) ==
    IF j <= 1 THEN 0
    ELSE OffsetBefore(blobs, j - 1)
             + Len(blobs[j - 1].user_key) + Len(blobs[j - 1].bytes)

\* C14: once the loop of flush_memtable is done, every memtable entry with a
\* value shorter than 2048 bytes went to the segment writer inline, and
\* every entry with a value of 2048 bytes or more went to the blob writer
\* and to the segment writer as a handle (the blob writer's segment id, the
\* writer's offset before the write) with the value's size.
C14_Separation ==
    LoopDone =>
        LET m     == Yanked.items
            blobs == fl_blob[1].blobs
        IN  /\ Len(fl_out) = Len(m)
            /\ \A i \in 1..Len(m) :
                   IF Len(UserValue(m[i])) < 2048
                   THEN /\ Stored(fl_out[i]) = Inline(UserValue(m[i]))
                        /\ \A j \in 1..Len(blobs) : blobs[j].user_key # m[i].user_key
                                                     \/ blobs[j].bytes # UserValue(m[i])
                   ELSE /\ Stored(fl_out[i]).kind = "Indirect"
                        /\ Stored(fl_out[i]).size = Len(UserValue(m[i]))
                        /\ Stored(fl_out[i]).handle.segment_id = fl_blob[1].id
                        /\ \E j \in 1..Len(blobs) :
                               /\ blobs[j].user_key = m[i].user_key
                               /\ blobs[j].bytes = UserValue(m[i])
                               /\ blobs[j].offset = OffsetBefore(blobs, j)
                               /\ Stored(fl_out[i]).handle.offset = blobs[j].offset

\* a memtable with a 2047-byte value and a 2048-byte value was flushed: the
\* first is inline, the second is the second blob's handle
C14_Witness ==
    /\ LoopDone
    /\ Len(fl_out) = 2
    /\ \E i, j \in 1..2 :
           /\ Len(UserValue(Yanked.items[i])) = 2047
           /\ Stored(fl_out[i]).kind = "Inline"
           /\ Len(UserValue(Yanked.items[j])) = 2048
           /\ Stored(fl_out[j]).kind = "Indirect"
           /\ Stored(fl_out[j]).handle = ValueHandle(0, fl_blob[1].id)

\* the internal key and value type of every entry, in order
RECURSIVE KeysOf(_)
KeysOf(entries) ==
    IF entries = <<>> THEN <<>>
    ELSE <<<<Head(entries).user_key, Head(entries).seqno, Head(entries).value_type>>>>
             \o KeysOf(Tail(entries))

\* C15: flush_memtable does not fail on the content of a sealed memtable,
\* and the entries of the segment it produces are, one for one and in
\* iteration order, the entries of the memtable with the same user_key,
\* seqno and value_type, tombstones included.
C15_Original ==
    /\ fl_result # None => (fl_result[1].ok \/ fl_result[1].value = "Io")
    /\ LoopDone => KeysOf(fl_out) = KeysOf(Yanked.items)

\* the internal keys readable from the active memtable, a sealed memtable or
\* a registered segment
Readable ==
    {<<e.user_key, e.seqno>> : e \in SeqToSet(items)}
        \cup UNION {{<<e.user_key, e.seqno>> : e \in SeqToSet(m.items)} :
                        m \in SeqToSet(sealed)}
        \cup UNION {{<<e.user_key, e.seqno>> : e \in SeqToSet(g.entries)} :
                        g \in SeqToSet(segments)}

\* a step of the blob tree keeps every entry readable; a sealed memtable
\* leaves the queue only in the step that installs the segment holding its
\* entries; a flush that fails leaves manifest and queue as they were
FlushStepSafe ==
    /\ Readable \subseteq Readable'
    /\ \A m \in SeqToSet(sealed) \ SeqToSet(sealed') :
           /\ Len(segments') = Len(segments) + 1
           /\ segments'[1].id = m.id
           /\ KeysOf(segments'[1].entries) = KeysOf(m.items)
           /\ Tail(segments') = segments
    /\ segments' # segments =>
           /\ fl_pc = "consumed"
           /\ fl_result' = Some(Ok(Some(fl_mem[1])))
           /\ SeqToSet(sealed) \ SeqToSet(sealed') # {}
    /\ (fl_pc # "idle" /\ fl_pc' = "idle" /\ ~fl_result'[1].ok) =>
           /\ segments' = segments
           /\ sealed' = sealed
           /\ \E m \in SeqToSet(sealed') : m.id = fl_mem[1]

\* C16: in flush_active_memtable the sealed memtable stays in the queue
\* until register_segments has installed its completely written segment,
\* a failing flush_memtable or register_segments leaves the manifest
\* unchanged and the sealed memtable present, and so at every step every
\* entry stays readable from the active memtable, a sealed memtable or a
\* registered segment.
C16_NoDataLoss == [][FlushStepSafe]_vars

\* a flushed segment is registered while a later memtable, sealed, waits
\* after its flush failed
C16_Witness ==
    /\ Len(segments) = 1
    /\ Len(sealed) = 1
    /\ fl_pc = "idle"
    /\ fl_result # None
    /\ ~fl_result[1].ok

----------------------------------------------------------------------------
(* Properties of the blob tree's garbage collection and scans *)

\* the garbage collector is between taking the lock and returning
GcInside == gc_pc \in {"locked", "rolled", "dropped"}

\* a step taken while the garbage collector holds the lock is the
\* collector's own: no insert starts or finishes, nothing is rotated; and
\* blob segments are marked stale or dropped only under the lock
GcStepExclusive ==
    /\ GcInside => /\ mt_writer = Some("gc")
                   /\ pc' = pc
                   /\ pending' = pending
                   /\ SeqToSet(sealed') \subseteq SeqToSet(sealed)
                   /\ items' # items => (gc_pc = "locked" /\ gc_pc' = "rolled")
    /\ (stale' # stale \/ ~(vlog \subseteq vlog')) => GcInside

\* C17: gc_with_target_space_amp and gc_with_staleness_threshold hold the
\* active memtable's write lock from before rollover until after
\* drop_stale_segments has returned, gc_drop_stale holds it around
\* drop_stale_segments, and no insert into the active memtable and no
\* rotation interleaves with rollover or the drop.
C17_GcExcludesWriters == [][GcStepExclusive]_vars

\* the collector rewrote a live blob into the locked memtable and dropped the
\* stale segment, still holding the lock
C17_Witness ==
    /\ gc_pc = "dropped"
    /\ gc_fn = Some("gc_with_staleness_threshold")
    /\ mt_writer = Some("gc")
    /\ gc_ids # {}
    /\ items # <<>>
    /\ \A id \in gc_ids : \A b \in vlog : b.id # id

\* C18: a range scan that meets an indirect handle whose blob is missing
\* from the value log yields an error item for it and does not panic.
C18_Original ==
    sc_result # None =>
        \A i \in 1..Len(sc_result[1]) :
            sc_result[1][i].ok \/ sc_result[1][i].value # "panic"

----------------------------------------------------------------------------
(* Merger *)

\* the entries the merger emitted, in order
Emitted == [j \in 1..Len(mg_out) |-> mg_out[j].value]

\* the entries of all sources
SourceEntries == UNION {SeqToSet(mg_tables[src]) : src \in BenchSources}

\* the merge ran to its end over sources that yielded no error
MergedAll == mg_pc = "done" /\ mg_fail = None

\* how often an entry occurs in a sequence
Occurrences(q, e) == Cardinality({j \in 1..Len(q) : q[j] = e})

\* C19: without dedup (and without a snapshot filter) the merger emits every
\* entry of every source exactly once: the output is as long as the sources
\* together, every entry occurs in it as often as there are sources holding
\* it, and the output is in internal-key order.
C19_MergeAll ==
    (MergedAll /\ ~mg_cfg.dedup /\ mg_cfg.seqno = None) =>
        /\ Len(mg_out) = TotalLen(mg_tables, BenchSources)
        /\ \A j \in 1..Len(mg_out) : mg_out[j].ok
        /\ \A e \in SourceEntries :
              Occurrences(Emitted, e) =
                  Cardinality({src \in BenchSources : e \in SeqToSet(mg_tables[src])})
        /\ \A j \in 1..Len(mg_out) : Emitted[j] \in SourceEntries
        /\ \A j \in 1..(Len(mg_out) - 1) : ~InternalKeyLess(Emitted[j + 1], Emitted[j])

\* three non-empty sources, two of them holding the same entry and two of
\* them versions of one key, merged into three entries
C19_Witness ==
    /\ MergedAll /\ ~mg_cfg.dedup /\ mg_cfg.seqno = None
    /\ \A src \in BenchSources : Len(mg_tables[src]) = 1
    /\ mg_tables[1] = mg_tables[2]
    /\ mg_tables[3][1].user_key = mg_tables[1][1].user_key
    /\ mg_tables[3][1].seqno > mg_tables[1][1].seqno
    /\ Len(mg_out) = 3

\* the entries the snapshot filter lets through; all of them without a snapshot
Admitted == {e \in SourceEntries : ~SnapshotDrops(e.seqno, mg_cfg.seqno)}

\* C20: with dedup the output holds each user_key at most once, and the entry
\* emitted for a user_key carries the maximum seqno of that key among the
\* entries of all sources (among those the snapshot lets through, if the
\* merger filters by snapshot as well).
C20_Dedup ==
    (MergedAll /\ mg_cfg.dedup) =>
        /\ \A i, j \in 1..Len(mg_out) :
              Emitted[i].user_key = Emitted[j].user_key => i = j
        /\ \A j \in 1..Len(mg_out) :
              /\ Emitted[j] \in Admitted
              /\ \A e \in Admitted :
                    e.user_key = Emitted[j].user_key => e.seqno <= Emitted[j].seqno
        /\ \A e \in Admitted :
              \E j \in 1..Len(mg_out) : Emitted[j].user_key = e.user_key

\* two sources hold versions of one key, the older one in the first source;
\* no snapshot filter; the merger emitted the key once, in its newest version
C20_Witness ==
    /\ MergedAll /\ mg_cfg.dedup /\ mg_cfg.seqno = None
    /\ \E a \in SeqToSet(mg_tables[1]), b \in SeqToSet(mg_tables[2]) :
          /\ a.user_key = b.user_key /\ a.seqno < b.seqno
          /\ \E j \in 1..Len(mg_out) : Emitted[j] = b
    /\ \E c \in SeqToSet(mg_tables[3]) : \E j \in 1..Len(mg_out) : Emitted[j] = c
    /\ Len(mg_out) < TotalLen(mg_tables, BenchSources)

----------------------------------------------------------------------------
(* choose and the manifest *)

\* a step in which choose returned
ChooseStep ==
    /\ choice' # None
    /\ <<choice, choice_levels, choice_now>>' # <<choice, choice_levels, choice_now>>

\* L0 lists its segments newest first: ids are handed out in flush order
NewestFirst(level) == \A i \in 1..(Len(level) - 1) : level[i].id > level[i + 1].id

\* C21: choose leaves the manifest as it was, the same segments in every level
\* and L0 in its newest-to-oldest order, and a second call on the same
\* manifest, configuration and clock value returns the same Choice as the first.
ChoosePure ==
    /\ ChooseStep => levels' = levels /\ choice_levels' = levels
    /\ NewestFirst(levels[1]) => NewestFirst(levels'[1])
    /\ (choice # None /\ choice' # None /\ choice_levels' = choice_levels
           /\ choice_now' = choice_now) => choice' = choice

----------------------------------------------------------------------------
(* Errors in scans *)

\* the decode of an Ok item's value fails
DecodeFails(kv) == kv.ok /\ ~DeserializeValue(kv.value.value).ok

\* an Ok item holds a handle into the value log
IsIndirect(kv) ==
    /\ kv.ok
    /\ DeserializeValue(kv.value.value).ok
    /\ DeserializeValue(kv.value.value).value.kind = "Indirect"

\* the scan ended in a panic
ScanPanicked ==
    /\ sc_result[1] # <<>>
    /\ ~sc_result[1][Len(sc_result[1])].ok
    /\ sc_result[1][Len(sc_result[1])].value = "panic"

\* C22: a range scan passes an error item of the index iterator on unchanged,
\* turns a value that fails to decode into an error item and turns a failed
\* value-log lookup into an error item; no item of the index iterator is left
\* out; gc_scan_stats returns an error when an entry fails to load or to
\* decode, and succeeds otherwise.
C22_ErrorsPropagate ==
    /\ sc_result # None =>
          LET yielded == sc_in[1].items
              out     == sc_result[1]
          IN  /\ Len(out) = Len(yielded) \/ (ScanPanicked /\ Len(out) < Len(yielded))
              /\ \A i \in 1..Len(out) :
                    /\ ~yielded[i].ok => (~out[i].ok /\ out[i].value = yielded[i].value)
                    /\ DecodeFails(yielded[i]) =>
                          (~out[i].ok /\ out[i].value = "Deserialize")
                    /\ (IsIndirect(yielded[i]) /\ ~sc_in[1].io_ok) =>
                          (~out[i].ok /\ out[i].value = "Io")
    /\ st_result # None =>
          LET yielded == sc_in[1].items
          IN  st_result[1].ok <=>
                  \A i \in 1..Len(yielded) : yielded[i].ok /\ ~DecodeFails(yielded[i])

\* a scan met a handle of a flushed entry while the value log could not read
\* its file, and yielded an error for it
C22_Witness ==
    /\ sc_result # None
    /\ \E i \in 1..Len(sc_result[1]) :
          /\ IsIndirect(sc_in[1].items[i])
          /\ ~sc_in[1].io_ok
          /\ ~sc_result[1][i].ok
          /\ sc_result[1][i].value = "Io"

----------------------------------------------------------------------------
(* Corrupted trailer *)

\* C23: opening a segment file whose last 256 bytes do not end with the magic
\* LSMTTRL1 fails with the decode error InvalidTrailer and returns no trailer.
C23_Original ==
    (trl_read # None /\ LastBytes(trl_file, Len(TRAILER_MAGIC)) # TRAILER_MAGIC) =>
        (~trl_read[1].ok /\ trl_read[1].value = "InvalidTrailer")

----------------------------------------------------------------------------
(* Prefix iteration *)

\* the entries of m whose user key begins with prefix, in the order of m
WithPrefix(m, prefix) ==
    SelectSeq(m, LAMBDA e : Len(prefix) <= Len(e.user_key)
                            /\ \A i \in 1..Len(prefix) : e.user_key[i] = prefix[i])

\* C24: prefix(p) yields exactly the entries whose user_key starts with p, every
\* version of each, none of a key that sorts before or after them, in
\* internal-key order; for the empty prefix it yields every entry.
C24_PrefixExact ==
    /\ \A p \in ProbeKeys :
          /\ Prefix(items, p) = WithPrefix(items, p)
          /\ StrictlyOrdered(Prefix(items, p))
    /\ Prefix(items, <<>>) = items

\* "a" is stored in two versions and "aa" in one: prefix("a") yields all three,
\* prefix("aa") only the last, and prefix of <<1, 0>>, which sorts between
\* them, yields nothing although "aa" lies in its range
C24_Witness ==
    /\ Cardinality(VersionsOf(items, <<1>>)) = 2
    /\ Cardinality(VersionsOf(items, <<1, 1>>)) = 1
    /\ Len(Prefix(items, <<1>>)) = 3
    /\ Len(Prefix(items, <<1, 1>>)) = 1
    /\ Prefix(items, <<1, 0>>) = <<>>
    /\ RangeFrom(items, GetLowerBound(<<1, 0>>)) # <<>>

----------------------------------------------------------------------------
(* The id list of a FIFO decision *)

\* C25: the id list of a DeleteSegments returned by choose holds each segment
\* id at most once, also for a segment that is both expired and among the
\* oldest the size limit selects, and every listed id is the id of a segment
\* of L0.
C25_Original ==
    (choice # None /\ choice[1].kind = "DeleteSegments") =>
        LET ids == choice[1].ids
        IN  /\ \A i, j \in 1..Len(ids) : ids[i] = ids[j] => i = j
            /\ \A i \in 1..Len(ids) : \E g \in ChosenL0 : g.id = ids[i]

----------------------------------------------------------------------------
(* Blob file before index segment *)

\* the ids of the blob segments registered in the value log
RegisteredBlobs == {b.id : b \in vlog}

\* the handles stored in a list of index entries
Handles(entries) ==
    {Stored(entries[i]).handle :
        i \in {j \in 1..Len(entries) :
                  DeserializeValue(entries[j].value).ok
                  /\ Stored(entries[j]).kind = "Indirect"}}

\* C26: in a flush the blob file is registered in the value log before the
\* index segment is created from the writer and before that segment is
\* registered in the manifest; every handle of a registered index segment
\* refers to a registered blob segment and to a blob in it.
C26_Original ==
    /\ fl_pc = "consumed" => fl_blob[1].id \in RegisteredBlobs
    /\ \A i \in 1..Len(segments) :
          \A h \in Handles(segments[i].entries) :
              h.segment_id \in RegisteredBlobs /\ BlobsGet(h) # None

----------------------------------------------------------------------------
(* The size counter and the map *)

\* the sizes of the entries of the skip map, summed
RECURSIVE VisibleSize(_)
VisibleSize(m) == IF m = <<>> THEN 0 ELSE ItemSize(Head(m)) + VisibleSize(Tail(m))

\* a step of insert by thread t: the counter update, or the link of an item
\* whose internal key the map holds already
CounterStep(t) == pc[t] = "idle" /\ pc'[t] = "added"
RelinkStep(t)  == pc[t] = "added" /\ pc'[t] = "idle" /\ HasKey(items, pending[t][1])

\* C27: the counter is updated before the item enters the map: in every state,
\* also between the two steps of interleaved inserts, size() is at least the
\* sum of the sizes of the entries in the map; an insert of an internal key
\* that is present raises size() and leaves len() as it is.
SizeLeadsStep ==
    /\ approximate_size' >= VisibleSize(items')
    /\ \A t \in Threads :
          /\ CounterStep(t) =>
                /\ approximate_size' = approximate_size + ItemSize(pending'[t][1])
                /\ approximate_size' > approximate_size
                /\ items' = items
          /\ RelinkStep(t) =>
                /\ Len(items') = Len(items)
                /\ approximate_size' = approximate_size

C27_SizeLeads == [][SizeLeadsStep]_vars

\* both writers stand between their two steps, one of them about to insert
\* the internal key that an earlier insert put into the map
C27_Witness ==
    /\ \A t \in Threads : pc[t] = "added"
    /\ \E t \in Threads : HasKey(items, pending[t][1])
    /\ approximate_size > VisibleSize(items)
    /\ Len(returned) = 1

----------------------------------------------------------------------------
(* Values in the memtable are inline *)

\* the value decodes, and as MaybeInlineValue::Inline
DecodesInline(entry) ==
    /\ DeserializeValue(entry.value).ok
    /\ DeserializeValue(entry.value).value.kind = "Inline"

\* the entries of the active memtable, of the writes in flight and of the
\* sealed memtables
MemtableEntries ==
    SeqToSet(items)
        \cup {pending[t][1] : t \in {u \in Threads : pending[u] # None}}
        \cup UNION {SeqToSet(sealed[i].items) : i \in 1..Len(sealed)}

\* C28: every value that insert or raw_insert_with_lock places in a memtable
\* is the serialization of MaybeInlineValue::Inline; a flush of a memtable
\* written through them alone never fails its assertion and never fails to
\* decode an entry.
C28_InlineBeforeFlush ==
    /\ \A e \in MemtableEntries : DecodesInline(e)
    /\ fl_result # None =>
          \/ fl_result[1].ok
          \/ fl_result[1].value \notin {"panic", "Deserialize"}

\* a memtable holding a tombstone written by raw_insert_with_lock and a large
\* value written by insert was flushed into a registered segment
C28_Witness ==
    /\ fl_result # None /\ fl_result[1].ok
    /\ Len(segments) = 1
    /\ \E i, j \in 1..Len(segments[1].entries) :
          /\ segments[1].entries[i].value_type = "Tombstone"
          /\ Stored(segments[1].entries[i]).kind = "Inline"
          /\ Stored(segments[1].entries[j]).kind = "Indirect"

====
